---- MODULE Spec2Model ----
(***************************************************************************)
(* Video engagement tracker and gated call-to-action of the funnel landing *)
(* page: the explicit-click VideoPlayer component                          *)
(* (src/src/components/VideoPlayer.tsx) with its Progress Store over       *)
(* localStorage.                                                           *)
(*                                                                         *)
(* Time is counted in abstract units: one unit is one step of the player   *)
(* position and of the wall clock.  Poll and save ticks are separate       *)
(* actions that may fire any number of times between two time steps.       *)
(***************************************************************************)
EXTENDS Integers, Sequences, FiniteSets, TLC

\* ------------------------------------------------------------------ bounds
MaxTime == 2        \* media duration and largest player position
MaxNow == 3         \* largest wall-clock value
MaxTimers == 4      \* timer ids the browser hands out
MaxCalls == 2       \* the count of onButtonEnable invocations saturates here
MaxEvents == 2      \* player events waiting for delivery
MaxDelay == 2       \* largest button_delay_seconds the server configures
MaxRows == 2        \* the count of write statements per table saturates here

Delays == 1..MaxDelay

\* ------------------------------------------------------- program constants
DEFAULT_BUTTON_DELAY == 180
DEFAULT_VIDEO_TYPE == "vimeo"
STORAGE_KEY == "video_progress"
POLL_INTERVAL_MS == 300
SAVE_INTERVAL_MS == 3000
HUD_TIMEOUT_MS == 5000

VARIABLES
    \* browser storage
    storage,            \* localStorage: key -> stored text
    storageMode,        \* "ok" | "quota" (setItem throws) | "disabled" (all throw)
    \* component state and refs
    phase,              \* "created" | "mounted" | "unmounted" | "closed"
    fetchPending,       \* GET /api/video/current in flight
    videoConfig,
    buttonEnabled,
    showHudOverlay,
    showPlayOverlay,
    playerRef,          \* "null" | "stub" (no API methods) | "ready"
    localVideoRef,      \* <video> element mounted
    progressIntervalRef,
    saveProgressIntervalRef,
    trackingStartedRef,
    hudOverlayTimeoutRef,
    currentVideoIdRef,
    \* browser and player
    timers,             \* live timers created by the component
    ytScript,           \* window.YT: "absent" | "loading" | "ready"
    playState,          \* "idle" | "playing" | "paused" | "ended"
    pos,                \* player position
    events,             \* player events queued for delivery
    now,                \* wall clock
    \* observations
    loadCalls,          \* calls of loadVideoConfig (0, 1, 2 = more)
    enableCalls,        \* invocations of onButtonEnable (saturating at MaxCalls)
    playStartCalls,     \* invocations of onPlayStart (0, 1, 2 = more)
    pollCreated,        \* unlock poll intervals created (0, 1, 2 = more)
    startedEvents,      \* playback-started events handled (0, 1, 2 = more)
    qualTick,           \* a poll tick has observed a time >= threshold
    lateEffect,         \* a store write or callback happened after teardown
    clickEnabled,       \* buttonEnabled as closed over by the click handler
    lastOps,            \* the last handler or player step that touched the store,
                        \* the player, the tracking or a callback, and what it did
    getResult,          \* result of the last getSavedProgress call
    lastWrite,          \* per identity, the last write applied through the store
    \* the ambient-autoplay variants (src/unnamed/part_002, part_003)
    variant,            \* "click" (VideoPlayer.tsx) | "hybrid" (part_002) | "ambient" (part_003)
    documentClickListenerRef,   \* the ref holds handleAnyInteraction
    docListeners,       \* event types handleAnyInteraction is registered for
    gdListeners,        \* event types handleFirstInteraction is registered for
    hasTriedAutoplayRef,
    googleDriveClickedRef,
    showPlayButton,
    playPromise,        \* the play() of setupLocalVideo: "none" | "resolving" | "rejecting"
    autoplayCheck,      \* the 1000 ms timeout of onReady is pending
    gdTimeout,          \* the 100 ms timeout of setupGoogleDriveVideo is pending
    triggerCalls,       \* calls of triggerPlay (0, 1, 2 = more)
    armCalls,           \* times the four listeners were registered (0, 1, 2 = more)
    \* the analytics tracker (src/unnamed/part_001) and the analytics routes
    \* of the server (src/unnamed/part_005)
    side,               \* which of the two runs: "none" | "client" | "server"
    doNotTrack,         \* navigator.doNotTrack, window.doNotTrack, navigator.msDoNotTrack
    isInitialized,
    isTrackingAllowed,
    initRunning,        \* init() is past the DNT test and awaits its requests
    supabaseWrites,     \* per table, insert and update statements the tracker sent
    dbWrites,           \* per table, INSERT and UPDATE statements the server ran
    \* the volume control of the vimeo player (src/unnamed/part_002)
    volume,             \* the volume state, 0..100
    \* the admin service (src/unnamed/part_000)
    adminSession,       \* the text localStorage holds under SESSION_KEY
    loginPending,       \* the credentials of the login() that awaits its answers
    videoConfigRows,    \* the rows of the video_config table the admin service writes
    saveRuns,           \* per saveVideoConfig call, how far it is
    \* the visitor registration of the tracker (src/unnamed/part_001)
    visitorsRow,        \* the visitors row of this visitor id
    registerRuns,       \* per init() run, how far its registerVisitor is and what it read
    \* deleteMyData (src/src/utils/optOut.ts, src/unnamed/part_001)
    visitorData,        \* per table, the rows with this visitor_id
    visitorIdStored,    \* localStorage holds visitorId
    deleteRun,          \* the deleteMyData call that runs: who, next statement, a failure
    \* the video routes of the server (src/unnamed/part_005)
    videoConfigFile,    \* the content of data/videoConfig.json
    serverVideoRows     \* the rows of the video_config table of the server

\* what the admin service, the visitor registration and the video routes of
\* the server have
sessionVars == <<adminSession, loginPending>>
configVars == <<videoConfigRows, saveRuns>>
visitorVars == <<visitorsRow, registerRuns>>
deleteVars == <<visitorData, visitorIdStored, deleteRun>>
serverVideoVars == <<videoConfigFile, serverVideoRows>>

serviceVars == <<sessionVars, configVars, visitorVars, deleteVars, serverVideoVars>>

vars == <<storage, storageMode, phase, fetchPending, videoConfig, buttonEnabled,
          showHudOverlay, showPlayOverlay, playerRef, localVideoRef,
          progressIntervalRef, saveProgressIntervalRef, trackingStartedRef,
          hudOverlayTimeoutRef, currentVideoIdRef, timers, ytScript, playState,
          pos, events, now, loadCalls, enableCalls, playStartCalls, pollCreated,
          startedEvents, qualTick, lateEffect, clickEnabled, lastOps, getResult,
          lastWrite, variant, documentClickListenerRef, docListeners, gdListeners,
          hasTriedAutoplayRef, googleDriveClickedRef, showPlayButton, playPromise,
          autoplayCheck, gdTimeout, triggerCalls, armCalls, side, doNotTrack,
          isInitialized, isTrackingAllowed, initRunning, supabaseWrites, dbWrites,
          volume, serviceVars>>

storeVars == <<storage, storageMode>>

compVars == <<phase, fetchPending, videoConfig, buttonEnabled, showHudOverlay,
              showPlayOverlay, playerRef, localVideoRef, progressIntervalRef,
              saveProgressIntervalRef, trackingStartedRef, hudOverlayTimeoutRef,
              currentVideoIdRef, timers, ytScript, playState, pos, events,
              loadCalls, enableCalls, playStartCalls, pollCreated,
              startedEvents, qualTick, lateEffect, clickEnabled, variant,
              documentClickListenerRef, docListeners, gdListeners,
              hasTriedAutoplayRef, googleDriveClickedRef, showPlayButton,
              playPromise, autoplayCheck, gdTimeout, triggerCalls, armCalls,
              side, doNotTrack, isInitialized, isTrackingAllowed, initRunning,
              supabaseWrites, dbWrites, volume, serviceVars>>

\* what only the ambient-autoplay variants have
ambientVars == <<variant, documentClickListenerRef, docListeners, gdListeners,
                 hasTriedAutoplayRef, googleDriveClickedRef, showPlayButton,
                 playPromise, autoplayCheck, gdTimeout, triggerCalls, armCalls>>

\* what the analytics tracker and the analytics routes have
analyticsVars == <<side, doNotTrack, isInitialized, isTrackingAllowed, initRunning,
                   supabaseWrites, dbWrites>>

\* ------------------------------------------------------------ JS values
\* A JavaScript value is a pair <<tag, n>>.
Num(n) == <<"num", n>>
NaNValue == <<"nan", 0>>
Undefined == <<"undefined", 0>>
NullValue == <<"null", 0>>
StrValue == <<"str", 0>>          \* a non-empty string

Times == 0..MaxTime
Falsy(v) == v \in {Undefined, NullValue, NaNValue, Num(0)}

\* v || 0
OrZero(v) == IF Falsy(v) THEN Num(0) ELSE v

\* ------------------------------------------------------------ JSON text
\* A stored text is a record; k tells what kind of text it is, time and
\* timestamp are the texts of the two members of an object text.
Missing == <<"missing", 0>>
NoText == [k |-> "absent", time |-> Missing, timestamp |-> Missing]
EmptyText == [k |-> "empty", time |-> Missing, timestamp |-> Missing]
GarbageText == [k |-> "garbage", time |-> Missing, timestamp |-> Missing]
NullText == [k |-> "null", time |-> Missing, timestamp |-> Missing]
ObjText(t, ts) == [k |-> "obj", time |-> t, timestamp |-> ts]

\* JSON.stringify of one member value: a finite number prints as itself,
\* NaN prints as null, undefined drops the member.
StringifyMember(v) ==
    CASE v[1] = "num" -> <<"num", v[2]>>
      [] v[1] = "nan" -> <<"null", 0>>
      [] v[1] = "null" -> <<"null", 0>>
      [] v[1] = "str" -> <<"str", 0>>
      [] OTHER -> Missing

Stringify_Swapped(time, ts) == ObjText(StringifyMember(Num(ts)), StringifyMember(time))

\* JSON.stringify({ time, timestamp: Date.now() })
Stringify(time, ts) == ObjText(StringifyMember(time), StringifyMember(Num(ts)))

\* the value of one member text after JSON.parse
ParseMember(m) ==
    CASE m[1] = "num" -> Num(m[2])
      [] m[1] = "null" -> NullValue
      [] m[1] = "str" -> StrValue
      [] OTHER -> Undefined

\* JSON.parse(saved).time : [threw, value]
ParseTime(text) ==
    CASE text.k = "garbage" -> [threw |-> TRUE, value |-> Undefined]
      [] text.k = "null" -> [threw |-> TRUE, value |-> Undefined]
      [] OTHER -> [threw |-> FALSE, value |-> ParseMember(text.time)]

\* ------------------------------------------------------- Progress Store
Ids == {"a", "b", "p", "u", "1142286537", ""}
StoreKey_Shared(videoId) == <<STORAGE_KEY, "">>

\* `${STORAGE_KEY}_${videoId}`
StoreKey(videoId) == <<STORAGE_KEY, videoId>>
Keys == {StoreKey(id) : id \in Ids}

GetItemThrows(mode) == mode = "disabled"
SetItemThrows(mode) == mode \in {"quota", "disabled"}
RemoveItemThrows(mode) == mode = "disabled"

\* the try block of getSavedProgress: [threw, returned, value]
getSavedProgressTry(st, mode, videoId) ==
    LET saved == st[StoreKey(videoId)]
        parsed == ParseTime(saved)
    IN  IF GetItemThrows(mode) THEN [threw |-> TRUE, returned |-> FALSE, value |-> Undefined]
        ELSE IF saved.k \in {"absent", "empty"}
             THEN [threw |-> FALSE, returned |-> FALSE, value |-> Undefined]
        ELSE IF parsed.threw THEN [threw |-> TRUE, returned |-> FALSE, value |-> Undefined]
        ELSE [threw |-> FALSE, returned |-> TRUE, value |-> OrZero(parsed.value)]

getSavedProgress_NoCatch(st, mode, videoId) ==
    LET r == getSavedProgressTry(st, mode, videoId)
    IN  IF r.returned THEN [threw |-> FALSE, value |-> r.value]
        ELSE [threw |-> r.threw, value |-> IF r.threw THEN Undefined ELSE Num(0)]

\* getSavedProgress: [threw, value]; catch (e) {} then return 0
getSavedProgress(st, mode, videoId) ==
    LET r == getSavedProgressTry(st, mode, videoId)
    IN  IF r.returned THEN [threw |-> FALSE, value |-> r.value]
        ELSE [threw |-> FALSE, value |-> Num(0)]

saveProgress_NoCatch(st, mode, videoId, time, ts) ==
    IF SetItemThrows(mode) THEN [threw |-> TRUE, st |-> st]
    ELSE [threw |-> FALSE,
          st |-> [st EXCEPT ![StoreKey(videoId)] = Stringify(time, ts)]]

\* saveProgress: [threw, st]; the setItem is inside try { } catch (e) {}
saveProgress(st, mode, videoId, time, ts) ==
    IF SetItemThrows(mode) THEN [threw |-> FALSE, st |-> st]
    ELSE [threw |-> FALSE,
          st |-> [st EXCEPT ![StoreKey(videoId)] = Stringify(time, ts)]]

\* clearProgress: [threw, st]; the removeItem is inside try { } catch (e) {}
clearProgress(st, mode, videoId) ==
    IF RemoveItemThrows(mode) THEN [threw |-> FALSE, st |-> st]
    ELSE [threw |-> FALSE, st |-> [st EXCEPT ![StoreKey(videoId)] = NoText]]

\* sessionStorage.setItem('video_sound_authorized', 'true'), outside any try
SessionSetThrows(mode) == mode = "disabled"

\* ------------------------------------------------------- configuration
\* A URL is abstracted to the site pattern it matches and the id it carries.
Types == {"local", "youtube", "vimeo", "google_drive"}
GoodUrl(ty) ==
    CASE ty = "vimeo" -> [site |-> "vimeo", id |-> "a"]
      [] ty = "youtube" -> [site |-> "youtube", id |-> "a"]
      [] ty = "google_drive" -> [site |-> "gdrive", id |-> "a"]
      [] OTHER -> [site |-> "file", id |-> "u"]
BadUrl == [site |-> "bad", id |-> ""]
DEFAULT_VIDEO_URL == [site |-> "vimeo", id |-> "1142286537"]

NullConfig == [video_type |-> "null", video_url |-> BadUrl, video_path |-> "",
               button_delay_seconds |-> 0]
DefaultConfig == [video_type |-> DEFAULT_VIDEO_TYPE, video_url |-> DEFAULT_VIDEO_URL,
                  video_path |-> "", button_delay_seconds |-> DEFAULT_BUTTON_DELAY]

ServerConfigs ==
    UNION { { [video_type |-> ty, video_url |-> u, video_path |-> "",
               button_delay_seconds |-> d] : u \in {GoodUrl(ty), BadUrl}, d \in Delays } :
            ty \in Types \ {"local"} }
    \cup
    { [video_type |-> "local", video_url |-> GoodUrl("local"), video_path |-> p,
       button_delay_seconds |-> d] : p \in {"", "p"}, d \in Delays }

\* what the request for /api/video/current settles with
Responses ==
    { [kind |-> k, video |-> NullConfig] :
        k \in {"networkError", "badBody", "nullBody", "noVideo"} }
    \cup { [kind |-> "video", video |-> c] : c \in ServerConfigs }

\* null is ""
getYouTubeVideoId(url) == IF url.site = "youtube" THEN url.id ELSE ""
getGoogleDriveFileId(url) == IF url.site = "gdrive" THEN url.id ELSE ""
getVimeoVideoId(url) == IF url.site = "vimeo" THEN url.id ELSE ""
UrlString(url) == url.id

loadVideoConfig_NoFallback(resp) ==
    IF resp.kind = "video" THEN resp.video ELSE NullConfig

\* the configuration loadVideoConfig hands to setVideoConfig
loadVideoConfig(resp) ==
    CASE resp.kind \in {"networkError", "badBody", "nullBody"} -> DefaultConfig
      [] resp.kind = "video" -> resp.video
      [] OTHER -> DefaultConfig

\* the effect on [videoConfig]: the identity held by currentVideoIdRef
IdentityOf(cfg, old) ==
    CASE cfg.video_type = "local" ->
            IF cfg.video_path # "" THEN cfg.video_path ELSE UrlString(cfg.video_url)
      [] cfg.video_type = "google_drive" ->
            IF getGoogleDriveFileId(cfg.video_url) # ""
            THEN getGoogleDriveFileId(cfg.video_url) ELSE old
      [] cfg.video_type = "vimeo" ->
            IF getVimeoVideoId(cfg.video_url) # ""
            THEN getVimeoVideoId(cfg.video_url) ELSE old
      [] OTHER ->
            IF getYouTubeVideoId(cfg.video_url) # ""
            THEN getYouTubeVideoId(cfg.video_url) ELSE old

RenderLocal_Always(ph, cfg, overlay) ==
    ph = "mounted" /\ cfg.video_type = "local" /\ cfg.video_path # ""

\* the <video> element is rendered, so localVideoRef.current is set
RenderLocal(ph, cfg, overlay) ==
    ph = "mounted" /\ cfg.video_type = "local" /\ cfg.video_path # "" /\ ~overlay

\* the #youtube-player element is rendered
RenderYouTube(ph, cfg, overlay) ==
    ph = "mounted" /\ cfg.video_type = "youtube" /\ ~overlay

\* ----------------------------------------------------------------- timers
TimerIds == 1..MaxTimers
Bump(c) == IF c < MaxCalls THEN c + 1 ELSE c
\* history counters tell none, one and more than one apart
Count(c) == IF c >= 2 THEN 2 ELSE c + 1
Min(a, b) == IF a < b THEN a ELSE b

\* The refs and timers a handler works on, threaded through its statements.
Track ==
    [timers |-> timers, prog |-> progressIntervalRef, save |-> saveProgressIntervalRef,
     hud |-> hudOverlayTimeoutRef, started |-> trackingStartedRef, created |-> pollCreated]

\* the id setInterval/setTimeout returns: one no live timer and no ref holds
AllocId(s, reuse) ==
    LET used == {t.id : t \in s.timers} \cup ({s.prog, s.save, s.hud} \ {reuse})
        free == TimerIds \ used
    IN  IF free = {} THEN 0 ELSE CHOOSE i \in free : \A j \in free : i <= j

ClearTimer(tm, id) == {t \in tm : t.id # id}

\* the delay argument of setInterval / setTimeout
Period(kind) ==
    CASE kind = "poll" -> POLL_INTERVAL_MS
      [] kind = "save" -> SAVE_INTERVAL_MS
      [] OTHER -> HUD_TIMEOUT_MS

Timer(id, kind, src, start, be, delay) ==
    [id |-> id, kind |-> kind, src |-> src, startTime |-> start, capBE |-> be,
     delay |-> delay, period |-> Period(kind)]

\* hudOverlayTimeoutRef.current = setTimeout(..., 5000): the old timeout is not cleared
SetHudTimeout(s) ==
    LET id == AllocId(s, s.hud)
    IN  [s EXCEPT !.timers = @ \cup {Timer(id, "hud", "none", 0, FALSE, 0)}, !.hud = id]

trackProgress_NoLatch(s, src, cfg, be, clock) ==
    LET cleared == [s EXCEPT !.timers = ClearTimer(@, s.prog)]
        id == AllocId(cleared, s.prog)
    IN  [cleared EXCEPT !.started = TRUE,
                        !.timers = @ \cup {Timer(id, "poll", src,
                                                 IF src = "elapsed" THEN clock ELSE 0,
                                                 be, cfg.button_delay_seconds)},
                        !.prog = id,
                        !.created = Count(@)]

\* trackVimeoProgress / trackGoogleDriveProgress (src "elapsed"),
\* trackLocalVideoProgress (src "local"), trackVideoProgress (src "yt").
\* The interval callback closes over videoConfig and buttonEnabled of the
\* render that created it, and over startTime = Date.now().
trackProgress(s, src, cfg, be, clock) ==
    IF s.started THEN s
    ELSE LET cleared == [s EXCEPT !.timers = ClearTimer(@, s.prog)]
             id == AllocId(cleared, s.prog)
         IN  [cleared EXCEPT !.started = TRUE,
                             !.timers = @ \cup {Timer(id, "poll", src,
                                                      IF src = "elapsed" THEN clock ELSE 0,
                                                      be, cfg.button_delay_seconds)},
                             !.prog = id,
                             !.created = Count(@)]

\* startSavingLocalProgress (src "local"), startSavingProgress (src "yt")
startSaving_NoClear(s, src) ==
    LET id == AllocId(s, 0)
    IN  [s EXCEPT !.timers = @ \cup {Timer(id, "save", src, 0, FALSE, 0)},
                  !.save = id]

startSaving(s, src) ==
    LET cleared == [s EXCEPT !.timers = ClearTimer(@, s.save)]
        id == AllocId(cleared, s.save)
    IN  [cleared EXCEPT !.timers = @ \cup {Timer(id, "save", src, 0, FALSE, 0)},
                        !.save = id]

\* every timer got an id
Allocated(s) == \A t \in s.timers : t.id # 0

SetTrack(s) ==
    /\ timers' = s.timers
    /\ progressIntervalRef' = s.prog
    /\ saveProgressIntervalRef' = s.save
    /\ hudOverlayTimeoutRef' = s.hud
    /\ trackingStartedRef' = s.started
    /\ pollCreated' = s.created

trackVars == <<timers, progressIntervalRef, saveProgressIntervalRef,
               hudOverlayTimeoutRef, trackingStartedRef, pollCreated>>

\* a store write or an outward callback among the effects of a handler
Outward == {"saveProgress", "clearProgress", "onButtonEnable", "onPlayStart"}
HasOutward(ops) == \E i \in 1..Len(ops) : ops[i] \in Outward
NoteLate(ops) == lateEffect' = (lateEffect \/ (phase = "unmounted" /\ HasOutward(ops)))

\* ------------------------------------------------------------ analytics
\* The tracker of src/unnamed/part_001 writes to Supabase; the routes of
\* src/unnamed/part_005 write to the database of the server.  The two are
\* run apart (side).  A write statement that was sent counts as a write.
NoValue == "undefined"
DntValues == {"1", "yes", "0", "unspecified"}

\* a browser defines at most one of the three properties
DntProfiles ==
    {[nav |-> NoValue, win |-> NoValue, ms |-> NoValue]}
    \cup {[nav |-> v, win |-> NoValue, ms |-> NoValue] : v \in DntValues}
    \cup {[nav |-> NoValue, win |-> v, ms |-> NoValue] : v \in DntValues}
    \cup {[nav |-> NoValue, win |-> NoValue, ms |-> v] : v \in DntValues}

NoDnt == [nav |-> NoValue, win |-> NoValue, ms |-> NoValue]

\* the visitor has switched Do Not Track on
DntOn(p) == \E v \in {p.nav, p.win, p.ms} : v \in {"1", "yes"}

\* navigator.doNotTrack || window.doNotTrack || navigator.msDoNotTrack
DntRead(p) ==
    IF p.nav # NoValue THEN p.nav
    ELSE IF p.win # NoValue THEN p.win
    ELSE p.ms

ClientBlocks_OneOnly(p) == DntRead(p) = "1" /\ p.nav # NoValue

\* init: dnt === '1' || dnt === 'yes'
ClientBlocks(p) == DntRead(p) \in {"1", "yes"}

ClientTables == {"visitors", "visitor_signals", "inferred_demographics", "events",
                 "page_views", "registrations"}
ServerTables == {"visitors", "events", "page_views", "registrations"}

NoWrites(tables) == [t \in tables |-> 0]

\* one more write statement on table t
Wrote(w, t) == [w EXCEPT ![t] = Min(@ + 1, MaxRows)]

NoLogin == [username |-> "", password |-> ""]

\* calls and runs that may overlap
MaxRuns == 3
Runs == 1..MaxRuns
NoRow == [exists |-> FALSE, total_visits |-> 0]
NoRun == [tab |-> "this", pc |-> "idle", existing |-> NoRow]
NoSave == [pc |-> "idle", deactivated |-> FALSE]
NoDelete == [who |-> "none", step |-> 0, failed |-> FALSE, result |-> "none"]
NoFile == [k |-> "absent", video_type |-> "", video_path |-> "", by |-> 0, is_active |-> FALSE]

NoSession == [k |-> "absent", username |-> "", id |-> 0, expiresAt |-> 0]

\* nothing of the admin service, the registration or the video routes runs
ServiceIdle ==
    /\ adminSession = NoSession
    /\ loginPending = NoLogin
    /\ videoConfigRows = <<>>
    /\ saveRuns = [r \in Runs |-> NoSave]
    /\ visitorsRow = NoRow
    /\ registerRuns = [r \in Runs |-> NoRun]
    /\ visitorData = NoWrites(ClientTables)
    /\ visitorIdStored = FALSE
    /\ deleteRun = NoDelete
    /\ videoConfigFile = NoFile
    /\ serverVideoRows = <<>>

AnalyticsIdle ==
    /\ side = "none"
    /\ doNotTrack = NoDnt
    /\ isInitialized = FALSE
    /\ isTrackingAllowed = FALSE
    /\ initRunning = FALSE
    /\ supabaseWrites = NoWrites(ClientTables)
    /\ dbWrites = NoWrites(ServerTables)
    /\ ServiceIdle

\* ------------------------------------------------------------ initial state
EmptyStorage == [k \in Keys |-> NoText]
SavedStorage ==
    [k \in Keys |-> IF k \in {StoreKey("a"), StoreKey("p")} THEN Stringify(Num(2), 0)
                    ELSE IF k = StoreKey("b") THEN Stringify(Num(1), 0)
                    ELSE NoText]
Modes == {"ok", "quota", "disabled"}
NoWrite == [op |-> "none", time |-> Undefined, reloaded |-> FALSE]

InitComponent ==
    /\ phase = "created"
    /\ fetchPending = FALSE
    /\ videoConfig = NullConfig
    /\ buttonEnabled = FALSE
    /\ showHudOverlay = TRUE
    /\ showPlayOverlay = TRUE
    /\ playerRef = "null"
    /\ localVideoRef = FALSE
    /\ progressIntervalRef = 0
    /\ saveProgressIntervalRef = 0
    /\ trackingStartedRef = FALSE
    /\ hudOverlayTimeoutRef = 0
    /\ currentVideoIdRef = ""
    /\ timers = {}
    /\ playState = "idle"
    /\ pos = 0
    /\ events = <<>>
    /\ now = 0
    /\ loadCalls = 0
    /\ enableCalls = 0
    /\ playStartCalls = 0
    /\ pollCreated = 0
    /\ startedEvents = 0
    /\ qualTick = FALSE
    /\ lateEffect = FALSE
    /\ clickEnabled = FALSE
    /\ lastOps = <<"render">>
    /\ getResult = [threw |-> FALSE, value |-> Num(0)]
    /\ lastWrite = [id \in Ids |-> NoWrite]
    /\ documentClickListenerRef = FALSE
    /\ docListeners = {}
    /\ gdListeners = {}
    /\ hasTriedAutoplayRef = FALSE
    /\ googleDriveClickedRef = FALSE
    /\ showPlayButton = TRUE
    /\ playPromise = "none"
    /\ autoplayCheck = FALSE
    /\ gdTimeout = FALSE
    /\ triggerCalls = 0
    /\ armCalls = 0
    /\ volume = 100

Init ==
    /\ storage \in {EmptyStorage, SavedStorage}
    /\ storageMode \in Modes
    /\ ytScript = "absent"
    /\ variant = "click"
    /\ InitComponent
    /\ AnalyticsIdle

storeObs == <<getResult, lastWrite>>

\* ------------------------------------------------------------ mount, config
\* useEffect(() => { loadVideoConfig(); ... }, [])
Mount ==
    /\ phase = "created"
    /\ phase' = "mounted"
    /\ loadCalls' = Count(loadCalls)
    /\ fetchPending' = TRUE
    /\ lastOps' = <<"mount", "loadVideoConfig">>
    /\ UNCHANGED <<storeVars, storeObs, ambientVars, analyticsVars, serviceVars, volume, videoConfig, buttonEnabled, showHudOverlay,
                   showPlayOverlay, playerRef, localVideoRef, trackVars,
                   currentVideoIdRef, ytScript, playState, pos, events, now,
                   enableCalls, playStartCalls, startedEvents, qualTick, lateEffect,
                   clickEnabled>>

\* the request settles; loadVideoConfig resumes and the [videoConfig] effect runs.
\* State updates of an unmounted component are dropped.
FetchSettle(resp) ==
    /\ fetchPending
    /\ phase \in {"mounted", "unmounted"}
    /\ fetchPending' = FALSE
    /\ IF phase = "mounted"
       THEN /\ videoConfig' = loadVideoConfig(resp)
            /\ currentVideoIdRef' = IF videoConfig' = NullConfig THEN currentVideoIdRef
                                    ELSE IdentityOf(videoConfig', currentVideoIdRef)
       ELSE UNCHANGED <<videoConfig, currentVideoIdRef>>
    /\ localVideoRef' = RenderLocal(phase, videoConfig', showPlayOverlay)
    /\ lastOps' = <<"loadVideoConfig:settled", resp.kind>>
    /\ UNCHANGED <<storeVars, storeObs, ambientVars, analyticsVars, serviceVars, volume, phase, buttonEnabled, showHudOverlay,
                   showPlayOverlay, playerRef, trackVars, ytScript, playState, pos,
                   events, now, loadCalls, enableCalls, playStartCalls,
                   startedEvents, qualTick, lateEffect, clickEnabled>>

\* the iframe API script was already loaded by something else on the page
\* when the visitor clicks (it matters to the YouTube backend only)
ApiAlreadyLoaded ==
    /\ phase = "mounted"
    /\ videoConfig.video_type = "youtube"
    /\ showPlayOverlay
    /\ ytScript = "absent"
    /\ ytScript' = "ready"
    /\ lastOps' = <<"window.YT">>
    /\ UNCHANGED <<storeVars, storeObs, ambientVars, analyticsVars, serviceVars, volume, phase, fetchPending, videoConfig, buttonEnabled,
                   showHudOverlay, showPlayOverlay, playerRef, localVideoRef, trackVars,
                   currentVideoIdRef, playState, pos, events, now, loadCalls,
                   enableCalls, playStartCalls, startedEvents, qualTick, lateEffect,
                   clickEnabled>>

\* ------------------------------------------------------------ click to play
\* createYouTubePlayer: the position the new player starts from,
\* start: Math.floor(savedTime)
StartPosition_Zero(st, mode, videoId) == 0

StartPosition(st, mode, videoId) ==
    LET saved == getSavedProgress(st, mode, videoId).value
    IN  IF saved[1] = "num" /\ saved[2] > 0 THEN Min(saved[2], MaxTime) ELSE 0

setupGoogleDriveVideo_Saving(s, cfg, be, clock) ==
    startSaving(trackProgress(SetHudTimeout(s), "elapsed", cfg, be, clock), "yt")

\* setupGoogleDriveVideo of VideoPlayer.tsx: the HUD timeout and
\* trackGoogleDriveProgress, nothing that saves
setupGoogleDriveVideo(s, cfg, be, clock) ==
    trackProgress(SetHudTimeout(s), "elapsed", cfg, be, clock)

\* handleManualPlay, the click on the play overlay.  The overlay and the
\* <video>/#youtube-player elements are never rendered together, so at the
\* click localVideoRef.current is null and setupLocalVideo returns at its
\* first line, and a player created at once finds no element to attach to.
HandleManualPlay(attach) ==
    /\ phase = "mounted"
    /\ videoConfig # NullConfig
    /\ showPlayOverlay
    /\ showPlayOverlay' = FALSE
    /\ playStartCalls' = Count(playStartCalls)
    /\ clickEnabled' = buttonEnabled
    /\ localVideoRef' = RenderLocal(phase, videoConfig, FALSE)
    /\ CASE videoConfig.video_type = "local" ->
              \* setupLocalVideo: if (!localVideoRef.current || !videoConfig) return
              /\ attach = "none"
              /\ ~localVideoRef
              /\ lastOps' = <<"handleManualPlay", "onPlayStart", "setupLocalVideo">>
              /\ UNCHANGED <<trackVars, playerRef, ytScript, pos>>
         [] videoConfig.video_type = "google_drive" ->
              LET s2 == setupGoogleDriveVideo(Track, videoConfig, buttonEnabled, now)
              IN  /\ attach = "none"
                  /\ Allocated(s2)
                  /\ SetTrack(s2)
                  /\ lastOps' = <<"handleManualPlay", "onPlayStart", "setHudTimeout",
                                  "trackGoogleDriveProgress">>
                  /\ UNCHANGED <<playerRef, ytScript, pos>>
         [] videoConfig.video_type = "vimeo" ->
              \* startVimeoManually; the vimeo iframe is always rendered
              /\ attach = "none"
              /\ IF SessionSetThrows(storageMode)
                 THEN /\ lastOps' = <<"handleManualPlay", "onPlayStart", "postMessage:play",
                                      "throw:sessionStorage">>
                      /\ UNCHANGED trackVars
                 ELSE LET s1 == SetHudTimeout(Track)
                          s2 == trackProgress(s1, "elapsed", videoConfig, buttonEnabled, now)
                      IN  /\ Allocated(s2)
                          /\ SetTrack(s2)
                          /\ lastOps' = <<"handleManualPlay", "onPlayStart",
                                          "postMessage:play", "setHudTimeout",
                                          "trackVimeoProgress">>
              /\ UNCHANGED <<playerRef, ytScript, pos>>
         [] OTHER ->
              \* loadYouTubePlayer(videoId) when the URL carries an id
              /\ UNCHANGED trackVars
              /\ IF getYouTubeVideoId(videoConfig.video_url) = ""
                 THEN /\ attach = "none"
                      /\ lastOps' = <<"handleManualPlay", "onPlayStart">>
                      /\ UNCHANGED <<playerRef, ytScript, pos>>
                 ELSE IF ytScript = "absent"
                 THEN /\ attach = "none"
                      /\ ytScript' = "loading"
                      /\ lastOps' = <<"handleManualPlay", "onPlayStart", "loadYouTubePlayer">>
                      /\ UNCHANGED <<playerRef, pos>>
                 ELSE \* new YT.Player on a missing element: throws or stays inert
                      /\ attach \in {"throws", "inert"}
                      /\ playerRef' = IF attach = "inert" THEN "inert" ELSE playerRef
                      /\ lastOps' = <<"handleManualPlay", "onPlayStart", "loadYouTubePlayer",
                                      "createYouTubePlayer", attach>>
                      /\ UNCHANGED <<ytScript, pos>>
    /\ lateEffect' = lateEffect
    /\ UNCHANGED <<storeVars, storeObs, ambientVars, analyticsVars, serviceVars, volume, phase, fetchPending, videoConfig, buttonEnabled,
                   showHudOverlay, currentVideoIdRef, playState, events, now, loadCalls,
                   enableCalls, startedEvents, qualTick>>

\* window.onYouTubeIframeAPIReady: createYouTubePlayer(videoId)
YouTubeApiReady(attach) ==
    /\ ytScript = "loading"
    /\ phase \in {"mounted", "unmounted"}
    /\ ytScript' = "ready"
    /\ IF RenderYouTube(phase, videoConfig, showPlayOverlay)
       THEN /\ attach = "attached"
            /\ playerRef' = "stub"
            /\ pos' = StartPosition(storage, storageMode,
                                    getYouTubeVideoId(videoConfig.video_url))
       ELSE /\ attach \in {"throws", "inert"}
            /\ playerRef' = IF attach = "inert" THEN "inert" ELSE playerRef
            /\ pos' = pos
    /\ lastOps' = <<"onYouTubeIframeAPIReady", "createYouTubePlayer", attach>>
    /\ UNCHANGED <<storeVars, storeObs, ambientVars, analyticsVars, serviceVars, volume, phase, fetchPending, videoConfig, buttonEnabled,
                   showHudOverlay, showPlayOverlay, localVideoRef, trackVars,
                   currentVideoIdRef, playState, events, now, loadCalls, enableCalls,
                   playStartCalls, startedEvents, qualTick, lateEffect, clickEnabled>>

\* events.onReady: playVideo(), unMute(), setVolume(100); the browser may or
\* may not let the playback start
YouTubeReady(starts) ==
    /\ playerRef = "stub"
    /\ phase = "mounted"
    /\ playerRef' = "ready"
    /\ IF starts
       THEN /\ Len(events) < MaxEvents
            /\ playState' = "playing"
            /\ events' = Append(events, "PLAYING")
       ELSE UNCHANGED <<playState, events>>
    /\ lastOps' = <<"onReady", "playVideo", "unMute", "setVolume">>
    /\ UNCHANGED <<storeVars, storeObs, ambientVars, analyticsVars, serviceVars, volume, phase, fetchPending, videoConfig, buttonEnabled,
                   showHudOverlay, showPlayOverlay, localVideoRef, trackVars,
                   currentVideoIdRef, ytScript, pos, now, loadCalls, enableCalls,
                   playStartCalls, startedEvents, qualTick, lateEffect, clickEnabled>>

\* ------------------------------------------------- the player and the clock
IsLocal == videoConfig.video_type = "local"
PlayerLive ==
    /\ phase = "mounted"
    /\ \/ IsLocal /\ localVideoRef
       \/ ~IsLocal /\ playerRef = "ready"

\* one unit of time passes; a playing player moves on
TimeAdvance ==
    /\ phase \in {"mounted", "unmounted"}
    /\ now < MaxNow
    /\ now' = now + 1
    /\ pos' = IF PlayerLive /\ playState = "playing" /\ pos < MaxTime THEN pos + 1 ELSE pos
    /\ UNCHANGED <<storeVars, storeObs, ambientVars, analyticsVars, serviceVars, volume, phase, fetchPending, videoConfig, buttonEnabled,
                   showHudOverlay, showPlayOverlay, playerRef, localVideoRef, trackVars,
                   currentVideoIdRef, ytScript, playState, events, loadCalls,
                   enableCalls, playStartCalls, startedEvents, qualTick, lateEffect,
                   clickEnabled, lastOps>>

\* the <video> is started through the browser (media keys, context menu):
\* the element has neither autoplay nor controls
BrowserPlay ==
    /\ PlayerLive /\ IsLocal
    /\ playState = "idle"
    /\ Len(events) < MaxEvents
    /\ playState' = "playing"
    /\ events' = Append(events, "play")
    /\ lastOps' = <<"browser:play">>
    /\ UNCHANGED <<storeVars, storeObs, ambientVars, analyticsVars, serviceVars, volume, phase, fetchPending, videoConfig, buttonEnabled,
                   showHudOverlay, showPlayOverlay, playerRef, localVideoRef, trackVars,
                   currentVideoIdRef, ytScript, pos, now, loadCalls, enableCalls,
                   playStartCalls, startedEvents, qualTick, lateEffect, clickEnabled>>

\* the player pauses for a reason of its own
PlayerPause ==
    /\ PlayerLive
    /\ playState = "playing"
    /\ Len(events) < MaxEvents
    /\ playState' = "paused"
    /\ events' = Append(events, IF IsLocal THEN "pause" ELSE "PAUSED")
    /\ lastOps' = <<"player:pause">>
    /\ UNCHANGED <<storeVars, storeObs, ambientVars, analyticsVars, serviceVars, volume, phase, fetchPending, videoConfig, buttonEnabled,
                   showHudOverlay, showPlayOverlay, playerRef, localVideoRef, trackVars,
                   currentVideoIdRef, ytScript, pos, now, loadCalls, enableCalls,
                   playStartCalls, startedEvents, qualTick, lateEffect, clickEnabled>>

\* the media reaches its end; a <video> fires pause and then ended
PlayerEnd ==
    /\ PlayerLive
    /\ playState = "playing"
    /\ pos = MaxTime
    /\ Len(events) + (IF IsLocal THEN 2 ELSE 1) <= MaxEvents
    /\ playState' = "ended"
    /\ events' = IF IsLocal THEN events \o <<"pause", "ended">> ELSE Append(events, "ENDED")
    /\ lastOps' = <<"player:end">>
    /\ UNCHANGED <<storeVars, storeObs, ambientVars, analyticsVars, serviceVars, volume, phase, fetchPending, videoConfig, buttonEnabled,
                   showHudOverlay, showPlayOverlay, playerRef, localVideoRef, trackVars,
                   currentVideoIdRef, ytScript, pos, now, loadCalls, enableCalls,
                   playStartCalls, startedEvents, qualTick, lateEffect, clickEnabled>>

\* ------------------------------------------------------------ player events
handlerFrame == <<storeObs, ambientVars, analyticsVars, serviceVars, volume, phase, fetchPending, videoConfig, buttonEnabled,
                  showHudOverlay, showPlayOverlay, playerRef, localVideoRef,
                  currentVideoIdRef, ytScript, now, loadCalls, enableCalls,
                  playStartCalls, qualTick, clickEnabled>>

\* play() / playVideo() on a player that is not playing: it resumes
\* (from the start after the end) and announces it
Resume(ev, rest, seek0) ==
    IF PlayerLive
    THEN /\ playState' = "playing"
         /\ pos' = IF seek0 \/ playState = "ended" THEN 0 ELSE pos
         /\ events' = IF playState = "playing" THEN rest ELSE Append(rest, ev)
    ELSE /\ events' = rest
         /\ UNCHANGED <<playState, pos>>

\* playback started: handleLocalVideoPlay / onStateChange(PLAYING)
PlaybackStarted(ev, src, name, be) ==
    /\ events # <<>> /\ Head(events) = ev
    /\ events' = Tail(events)
    /\ startedEvents' = Count(startedEvents)
    /\ IF SessionSetThrows(storageMode)
       THEN /\ lastOps' = <<name, "throw:sessionStorage">>
            /\ UNCHANGED trackVars
       ELSE LET s1 == SetHudTimeout(Track)
                s2 == trackProgress(s1, src, videoConfig, be, now)
                s3 == startSaving(s2, src)
            IN  /\ Allocated(s3)
                /\ SetTrack(s3)
                /\ lastOps' = <<name, "setHudTimeout", "trackProgress", "startSaving">>
    /\ UNCHANGED <<storeVars, playState, pos, lateEffect, handlerFrame>>

handleLocalVideoPlay ==
    /\ phase = "mounted" /\ IsLocal
    /\ PlaybackStarted("play", "local", "handleLocalVideoPlay", buttonEnabled)

OnStateChangePlaying ==
    /\ phase \in {"mounted", "unmounted"} /\ ~IsLocal
    /\ PlaybackStarted("PLAYING", "yt", "onStateChange:PLAYING", clickEnabled)

handleEnded_NoPlay(ev, back, name, canSeek) ==
    LET r == clearProgress(storage, storageMode, currentVideoIdRef)
    IN  /\ events # <<>> /\ Head(events) = ev
        /\ storage' = r.st
        /\ events' = Tail(events)
        /\ pos' = IF canSeek /\ PlayerLive THEN 0 ELSE pos
        /\ playState' = playState
        /\ lastOps' = <<name, "clearProgress", "seek0">>
        /\ NoteLate(lastOps')
        /\ UNCHANGED <<storageMode, trackVars, startedEvents, handlerFrame>>

\* end of media: handleLocalVideoEnded / onStateChange(ENDED)
handleEnded(ev, back, name, canSeek) ==
    LET r == clearProgress(storage, storageMode, currentVideoIdRef)
    IN  /\ events # <<>> /\ Head(events) = ev
        /\ storage' = r.st
        /\ IF r.threw
           THEN /\ lastOps' = <<name, "throw:clearProgress">>
                /\ events' = Tail(events)
                /\ UNCHANGED <<playState, pos>>
           ELSE IF canSeek
           THEN /\ lastOps' = <<name, "clearProgress", "seek0", "play">>
                /\ Resume(back, Tail(events), TRUE)
           ELSE /\ lastOps' = <<name, "clearProgress">>
                /\ events' = Tail(events)
                /\ UNCHANGED <<playState, pos>>
        /\ NoteLate(lastOps')
        /\ UNCHANGED <<storageMode, trackVars, startedEvents, handlerFrame>>

handleLocalVideoEnded ==
    /\ phase = "mounted" /\ IsLocal
    /\ handleEnded("ended", "play", "handleLocalVideoEnded", localVideoRef)

OnStateChangeEnded ==
    /\ phase \in {"mounted", "unmounted"} /\ ~IsLocal
    /\ handleEnded("ENDED", "PLAYING", "onStateChange:ENDED", playerRef = "ready")

handlePaused_NoPlay(ev, back, name, hasPlayer) ==
    LET doSave == hasPlayer /\ currentVideoIdRef # ""
        r == IF doSave
             THEN saveProgress(storage, storageMode, currentVideoIdRef, Num(pos), now)
             ELSE [threw |-> FALSE, st |-> storage]
    IN  /\ events # <<>> /\ Head(events) = ev
        /\ storage' = r.st
        /\ lastOps' = IF doSave THEN <<name, "saveProgress">> ELSE <<name>>
        /\ events' = Tail(events)
        /\ UNCHANGED <<playState, pos>>
        /\ NoteLate(lastOps')
        /\ UNCHANGED <<storageMode, trackVars, startedEvents, handlerFrame>>

\* pause: handleLocalVideoPause / onStateChange(PAUSED)
handlePaused(ev, back, name, hasPlayer) ==
    LET doSave == hasPlayer /\ currentVideoIdRef # ""
        r == IF doSave
             THEN saveProgress(storage, storageMode, currentVideoIdRef, Num(pos), now)
             ELSE [threw |-> FALSE, st |-> storage]
    IN  /\ events # <<>> /\ Head(events) = ev
        /\ storage' = r.st
        /\ IF r.threw
           THEN /\ lastOps' = <<name, "throw:saveProgress">>
                /\ events' = Tail(events)
                /\ UNCHANGED <<playState, pos>>
           ELSE IF hasPlayer
           THEN /\ lastOps' = IF doSave THEN <<name, "saveProgress", "play">>
                              ELSE <<name, "play">>
                /\ Resume(back, Tail(events), FALSE)
           ELSE /\ lastOps' = <<name>>
                /\ events' = Tail(events)
                /\ UNCHANGED <<playState, pos>>
        /\ NoteLate(lastOps')
        /\ UNCHANGED <<storageMode, trackVars, startedEvents, handlerFrame>>

handleLocalVideoPause ==
    /\ phase = "mounted" /\ IsLocal
    /\ handlePaused("pause", "play", "handleLocalVideoPause", localVideoRef)

OnStateChangePaused ==
    /\ phase \in {"mounted", "unmounted"} /\ ~IsLocal
    /\ handlePaused("PAUSED", "PLAYING", "onStateChange:PAUSED", playerRef = "ready")

\* ------------------------------------------------------------------ timers
Observed_Clock(t) == [readable |-> TRUE, time |-> now - t.startTime]

\* what a poll callback can read: [readable, time]
Observed(t) ==
    CASE t.src = "local" -> [readable |-> localVideoRef, time |-> pos]
      [] t.src = "yt" -> [readable |-> playerRef = "ready", time |-> pos]
      [] OTHER -> [readable |-> TRUE, time |-> now - t.startTime]

ShouldUnlock_Strict(time, delay, be) == time > delay /\ ~be

\* currentTime >= videoConfig.button_delay_seconds && !buttonEnabled, with
\* buttonEnabled the constant the callback closed over
ShouldUnlock(time, delay, be) == time >= delay /\ ~be

PollTick_StopOnUnlock(t) ==
    LET o == Observed(t)
        reached == o.readable /\ o.time >= t.delay
        fire == o.readable /\ ShouldUnlock(o.time, t.delay, t.capBE)
    IN  /\ t \in timers /\ t.kind = "poll"
        /\ phase \in {"mounted", "unmounted"}
        /\ buttonEnabled' = (buttonEnabled \/ (fire /\ phase = "mounted"))
        /\ enableCalls' = IF fire THEN Bump(enableCalls) ELSE enableCalls
        /\ qualTick' = (qualTick \/ reached)
        /\ lastOps' = IF fire
                      THEN <<"pollTick", IF reached THEN "reached" ELSE "below",
                             "setButtonEnabled", "onButtonEnable">>
                      ELSE lastOps
        /\ NoteLate(lastOps')
        /\ timers' = IF fire THEN {u \in timers : u.kind = "hud"} ELSE timers
        /\ UNCHANGED <<storeVars, storeObs, ambientVars, analyticsVars, serviceVars, volume, phase, fetchPending, videoConfig,
                       showHudOverlay, showPlayOverlay, playerRef, localVideoRef,
                       progressIntervalRef, saveProgressIntervalRef,
                       hudOverlayTimeoutRef, trackingStartedRef, pollCreated,
                       currentVideoIdRef, ytScript, playState, pos, events, now,
                       loadCalls, playStartCalls, startedEvents, clickEnabled>>

\* one run of the 300 ms poll callback
PollTick(t) ==
    LET o == Observed(t)
        reached == o.readable /\ o.time >= t.delay
        fire == o.readable /\ ShouldUnlock(o.time, t.delay, t.capBE)
    IN  /\ t \in timers /\ t.kind = "poll"
        /\ phase \in {"mounted", "unmounted"}
        /\ buttonEnabled' = (buttonEnabled \/ (fire /\ phase = "mounted"))
        /\ enableCalls' = IF fire THEN Bump(enableCalls) ELSE enableCalls
        /\ qualTick' = (qualTick \/ reached)
        /\ lastOps' = IF fire
                      THEN <<"pollTick", IF reached THEN "reached" ELSE "below",
                             "setButtonEnabled", "onButtonEnable">>
                      ELSE lastOps
        /\ NoteLate(lastOps')
        /\ UNCHANGED <<storeVars, storeObs, ambientVars, analyticsVars, serviceVars, volume, phase, fetchPending, videoConfig,
                       showHudOverlay, showPlayOverlay, playerRef, localVideoRef,
                       trackVars, currentVideoIdRef, ytScript, playState, pos, events,
                       now, loadCalls, playStartCalls, startedEvents, clickEnabled>>

\* localVideoRef.current / playerRef.current && playerRef.current.getCurrentTime
HasPlayer(src) == IF src = "local" THEN localVideoRef ELSE playerRef = "ready"

SaveDue_Always(t) == HasPlayer(t.src) /\ currentVideoIdRef # ""

\* the conditions under which the save callback calls saveProgress
SaveDue(t) == HasPlayer(t.src) /\ currentVideoIdRef # "" /\ pos > 0

\* one run of the 3000 ms save callback
SaveTick(t) ==
    LET doSave == SaveDue(t)
        r == IF doSave
             THEN saveProgress(storage, storageMode, currentVideoIdRef, Num(pos), now)
             ELSE [threw |-> FALSE, st |-> storage]
    IN  /\ t \in timers /\ t.kind = "save"
        /\ phase \in {"mounted", "unmounted"}
        /\ storage' = r.st
        /\ lastOps' = IF r.threw THEN <<"saveTick", "throw:saveProgress">>
                      ELSE IF doSave THEN <<"saveTick", "saveProgress">>
                      ELSE lastOps
        /\ NoteLate(lastOps')
        /\ UNCHANGED <<storageMode, storeObs, ambientVars, analyticsVars, serviceVars, volume, phase, fetchPending, videoConfig,
                       buttonEnabled, showHudOverlay, showPlayOverlay, playerRef,
                       localVideoRef, trackVars, currentVideoIdRef, ytScript,
                       playState, pos, events, now, loadCalls, enableCalls,
                       playStartCalls, startedEvents, qualTick, clickEnabled>>

\* the 5000 ms HUD timeout fires: setShowHudOverlay(false)
HudFire(t) ==
    /\ t \in timers /\ t.kind = "hud"
    /\ phase \in {"mounted", "unmounted"}
    /\ timers' = timers \ {t}
    /\ showHudOverlay' = IF phase = "mounted" THEN FALSE ELSE showHudOverlay
    /\ UNCHANGED <<lastOps, storeVars, storeObs, ambientVars, analyticsVars, serviceVars, volume, phase, fetchPending, videoConfig, buttonEnabled,
                   showPlayOverlay, playerRef, localVideoRef, progressIntervalRef,
                   saveProgressIntervalRef, hudOverlayTimeoutRef, trackingStartedRef,
                   pollCreated, currentVideoIdRef, ytScript, playState, pos, events,
                   now, loadCalls, enableCalls, playStartCalls, startedEvents,
                   qualTick, lateEffect, clickEnabled>>

\* --------------------------------------------------------------- teardown
\* the cleanups of the three effects run; React detaches the <video> and its
\* handlers, the YouTube player is not destroyed
Unmount ==
    /\ phase = "mounted"
    /\ phase' = "unmounted"
    /\ timers' = ClearTimer(ClearTimer(ClearTimer(timers, hudOverlayTimeoutRef),
                                       saveProgressIntervalRef),
                            progressIntervalRef)
    /\ localVideoRef' = FALSE
    /\ events' = IF IsLocal THEN <<>> ELSE events
    /\ playState' = IF IsLocal THEN "idle" ELSE playState
    /\ lastOps' = <<"unmount", "clearTimeout:hud", "clearInterval:save",
                    "clearInterval:poll">>
    /\ UNCHANGED <<storeVars, storeObs, ambientVars, analyticsVars, serviceVars, volume, fetchPending, videoConfig, buttonEnabled,
                   showHudOverlay, showPlayOverlay, playerRef, progressIntervalRef,
                   saveProgressIntervalRef, hudOverlayTimeoutRef, trackingStartedRef,
                   pollCreated, currentVideoIdRef, ytScript, pos, now, loadCalls,
                   enableCalls, playStartCalls, startedEvents, qualTick, lateEffect,
                   clickEnabled>>

\* handleBeforeUnload, then the page is gone
BeforeUnload ==
    LET hasPlayer == IF IsLocal THEN localVideoRef ELSE playerRef = "ready"
        doSave == hasPlayer /\ currentVideoIdRef # "" /\ pos > 0
        r == IF doSave
             THEN saveProgress(storage, storageMode, currentVideoIdRef, Num(pos), now)
             ELSE [threw |-> FALSE, st |-> storage]
    IN  /\ phase = "mounted"
        /\ phase' = "closed"
        /\ storage' = r.st
        /\ lastOps' = IF r.threw THEN <<"handleBeforeUnload", "throw:saveProgress">>
                      ELSE IF doSave THEN <<"handleBeforeUnload", "saveProgress">>
                      ELSE <<"handleBeforeUnload">>
        /\ UNCHANGED <<storageMode, storeObs, ambientVars, analyticsVars, serviceVars, volume, fetchPending, videoConfig, buttonEnabled,
                       showHudOverlay, showPlayOverlay, playerRef, localVideoRef,
                       trackVars, events, currentVideoIdRef, ytScript, playState,
                       pos, now, loadCalls, enableCalls, playStartCalls,
                       startedEvents, qualTick, lateEffect, clickEnabled>>

\* ---------------------------------------------------------- specification
Next ==
    \/ Mount
    \/ \E resp \in Responses : FetchSettle(resp)
    \/ ApiAlreadyLoaded
    \/ \E attach \in {"none", "throws", "inert"} : HandleManualPlay(attach)
    \/ \E attach \in {"attached", "throws", "inert"} : YouTubeApiReady(attach)
    \/ \E starts \in BOOLEAN : YouTubeReady(starts)
    \/ TimeAdvance
    \/ BrowserPlay
    \/ PlayerPause
    \/ PlayerEnd
    \/ handleLocalVideoPlay
    \/ OnStateChangePlaying
    \/ handleLocalVideoEnded
    \/ OnStateChangeEnded
    \/ handleLocalVideoPause
    \/ OnStateChangePaused
    \/ \E t \in timers : PollTick(t)
    \/ \E t \in timers : SaveTick(t)
    \/ \E t \in timers : HudFire(t)
    \/ Unmount
    \/ BeforeUnload

Spec == Init /\ [][Next]_vars

\* ------------------------------------------------------------ model sanity
TypeOK ==
    /\ phase \in {"created", "mounted", "unmounted", "closed"}
    /\ playerRef \in {"null", "inert", "stub", "ready"}
    /\ pos \in Times
    /\ now \in 0..MaxNow
    /\ Len(events) <= MaxEvents
    /\ \A t \in timers : t.id \in TimerIds
    /\ {progressIntervalRef, saveProgressIntervalRef, hudOverlayTimeoutRef}
          \subseteq 0..MaxTimers

\* the overlay and the <video> element are never rendered together
OverlayHidesVideo == showPlayOverlay => ~localVideoRef

\* ------------------------------------------------ the Progress Store alone
\* The store functions applied to inputs drawn from bounded sets, with a
\* second writer of the same localStorage and a page reload.
StoreIds == {"a", "b"}
SaveInputs == {Num(n) : n \in Times} \cup {NaNValue}
ForeignTexts ==
    {EmptyText, GarbageText, NullText, ObjText(Missing, Missing),
     ObjText(<<"null", 0>>, <<"num", 0>>), ObjText(<<"str", 0>>, <<"num", 0>>)}

StoreInit ==
    /\ storage = EmptyStorage
    /\ storageMode \in Modes
    /\ ytScript = "absent"
    /\ variant = "click"
    /\ InitComponent
    /\ AnalyticsIdle

StSave(id, t) ==
    /\ storage' = saveProgress(storage, storageMode, id, t, now).st
    /\ lastWrite' = [lastWrite EXCEPT ![id] = [op |-> "save", time |-> t, reloaded |-> FALSE]]
    /\ lastOps' = <<"saveProgress", id>>
    /\ UNCHANGED <<storageMode, getResult, compVars, now>>

StClear(id) ==
    /\ storage' = clearProgress(storage, storageMode, id).st
    /\ lastWrite' = [lastWrite EXCEPT ![id] = [op |-> "clear", time |-> Undefined,
                                               reloaded |-> FALSE]]
    /\ lastOps' = <<"clearProgress", id>>
    /\ UNCHANGED <<storageMode, getResult, compVars, now>>

StGet(id) ==
    /\ getResult' = getSavedProgress(storage, storageMode, id)
    /\ lastOps' = <<"getSavedProgress", id>>
    /\ UNCHANGED <<storeVars, lastWrite, compVars, now>>

\* the page is reloaded: localStorage is all that survives
StReload ==
    /\ lastWrite' = [id \in Ids |-> [lastWrite[id] EXCEPT !.reloaded = TRUE]]
    /\ getResult' = [threw |-> FALSE, value |-> Num(0)]
    /\ lastOps' = <<"reload">>
    /\ UNCHANGED <<storeVars, compVars, now>>

\* something else on the origin writes the entry
StForeignWrite(id, text) ==
    /\ storage' = [storage EXCEPT ![StoreKey(id)] = text]
    /\ lastWrite' = [lastWrite EXCEPT ![id] = [op |-> "foreign", time |-> Undefined,
                                               reloaded |-> FALSE]]
    /\ lastOps' = <<"foreignWrite", id>>
    /\ UNCHANGED <<storageMode, getResult, compVars, now>>

StoreNext ==
    \/ \E id \in StoreIds, t \in SaveInputs : StSave(id, t)
    \/ \E id \in StoreIds : StClear(id)
    \/ \E id \in StoreIds : StGet(id)
    \/ StReload
    \/ \E id \in StoreIds, text \in ForeignTexts : StForeignWrite(id, text)

StoreSpec == StoreInit /\ [][StoreNext]_vars

\* --------------------------------------------- the ambient-autoplay variants
\* src/unnamed/part_002 (variant "hybrid": local, youtube and google_drive
\* start by themselves, vimeo waits behind a play button) and
\* src/unnamed/part_003 (variant "ambient": every backend starts by itself).
\* The Progress Store, the pause and ended handlers, the poll and save
\* callbacks and handleBeforeUnload have the code of VideoPlayer.tsx.
\* triggerPlay reads isVideoStarted of the render that created it, which is
\* false; mute and volume are not part of the state.
InteractionTypes == {"click", "touchstart", "keydown", "scroll", "mousemove"}
DocTypes == {"click", "touchstart", "keydown", "scroll"}
GdTypes == {"click", "touchstart", "scroll", "mousemove", "keydown"}

\* the listener state a handler works on
Lst == [ref |-> documentClickListenerRef, doc |-> docListeners, armed |-> armCalls]

SetLst(l) ==
    /\ documentClickListenerRef' = l.ref
    /\ docListeners' = l.doc
    /\ armCalls' = l.armed

lstVars == <<documentClickListenerRef, docListeners, armCalls>>

setupDocumentClickListener_NoGuard(l) ==
    [ref |-> TRUE, doc |-> l.doc \cup DocTypes, armed |-> Count(l.armed)]

\* setupDocumentClickListener: if (documentClickListenerRef.current) return
setupDocumentClickListener(l) ==
    IF l.ref THEN l
    ELSE [ref |-> TRUE, doc |-> l.doc \cup DocTypes, armed |-> Count(l.armed)]

\* if (documentClickListenerRef.current) { four removeEventListener; ref = null }
removeDocumentListeners(l) ==
    IF l.ref THEN [l EXCEPT !.doc = {}, !.ref = FALSE] ELSE l

handleAnyInteraction_RemoveOne(l, ty) ==
    IF l.ref THEN [l EXCEPT !.doc = @ \ {ty}] ELSE l

\* handleAnyInteraction, after its call of triggerPlay
handleAnyInteraction(l, ty) == removeDocumentListeners(l)

\* the variables no step of the ambient variants changes but those shared
\* with VideoPlayer.tsx
ambFixedButVolume ==
    <<storageMode, storeObs, analyticsVars, serviceVars, variant, showPlayOverlay,
      clickEnabled, playStartCalls, loadCalls, showHudOverlay, buttonEnabled,
      enableCalls, qualTick, lateEffect, now>>

ambFixed == <<ambFixedButVolume, volume>>

\* what an earlier visit left: a record of time 2 for the YouTube id and for
\* the local path, and a text that does not parse for the local URL
ResumeStorage ==
    [k \in Keys |-> IF k \in {StoreKey("a"), StoreKey("p")} THEN Stringify(Num(2), 0)
                    ELSE IF k = StoreKey("u") THEN GarbageText
                    ELSE NoText]

\* a first visit, where nothing is stored yet, or a return; a storage that
\* refuses every access has kept nothing
AmbientInit ==
    /\ storage \in {EmptyStorage, ResumeStorage}
    /\ storageMode \in {"ok", "disabled"}
    /\ storageMode = "disabled" => storage = EmptyStorage
    /\ ytScript = "absent"
    /\ variant \in {"hybrid", "ambient"}
    /\ InitComponent
    /\ AnalyticsIdle

\* part_002 calls sessionStorage.setItem in its playback-started handlers,
\* part_003 does not
SessionThrows == variant = "hybrid" /\ SessionSetThrows(storageMode)

setupVimeoVideo_Listener(v, s, l, cfg, clock) ==
    IF v = "hybrid"
    THEN [btn |-> TRUE, s |-> s, l |-> setupDocumentClickListener(l)]
    ELSE [btn |-> showPlayButton,
          s |-> trackProgress(SetHudTimeout(s), "elapsed", cfg, FALSE, clock),
          l |-> l]

\* setupVimeoVideo: part_002 shows the play button; part_003 sets the HUD
\* timeout and starts trackVimeoProgress
setupVimeoVideo(v, s, l, cfg, clock) ==
    IF v = "hybrid"
    THEN [btn |-> TRUE, s |-> s, l |-> l]
    ELSE [btn |-> showPlayButton,
          s |-> trackProgress(SetHudTimeout(s), "elapsed", cfg, FALSE, clock),
          l |-> l]

\* the request settles, setVideoConfig, and the effect on [videoConfig] runs
\* its setup.  api: window.YT is there already; allowed: the browser lets the
\* muted <video> play
AmbFetchSettle(resp, api, allowed) ==
    LET cfg == loadVideoConfig(resp)
        id == IdentityOf(cfg, currentVideoIdRef)
        ty == cfg.video_type
    IN  /\ fetchPending
        /\ phase \in {"mounted", "unmounted"}
        /\ fetchPending' = FALSE
        /\ IF phase = "unmounted"
           THEN /\ api = "absent" /\ allowed
                /\ lastOps' = <<"loadVideoConfig:settled", resp.kind>>
                /\ UNCHANGED <<videoConfig, currentVideoIdRef, localVideoRef, pos,
                               playState, events, playPromise, trackVars, gdListeners,
                               gdTimeout, showPlayButton, lstVars, ytScript, playerRef>>
           ELSE /\ videoConfig' = cfg
                /\ currentVideoIdRef' = id
                /\ localVideoRef' = (ty = "local")
                /\ CASE ty = "local" ->
                          \* setupLocalVideo
                          /\ api = "absent"
                          /\ pos' = StartPosition(storage, storageMode, id)
                          /\ IF allowed
                             THEN /\ playState' = "playing"
                                  /\ events' = Append(events, "play")
                                  /\ playPromise' = "resolving"
                             ELSE /\ playPromise' = "rejecting"
                                  /\ UNCHANGED <<playState, events>>
                          /\ lastOps' = <<"loadVideoConfig:settled", resp.kind,
                                          "setupLocalVideo", "play">>
                          /\ UNCHANGED <<trackVars, gdListeners, gdTimeout,
                                         showPlayButton, lstVars, ytScript, playerRef>>
                     [] ty = "google_drive" /\ getGoogleDriveFileId(cfg.video_url) # "" ->
                          \* setupGoogleDriveVideo
                          LET s1 == SetHudTimeout(Track)
                              s2 == trackProgress(s1, "elapsed", cfg, buttonEnabled, now)
                          IN  /\ api = "absent" /\ allowed
                              /\ Allocated(s2)
                              /\ SetTrack(s2)
                              /\ gdListeners' = GdTypes
                              /\ gdTimeout' = TRUE
                              /\ lastOps' = <<"loadVideoConfig:settled", resp.kind,
                                              "setupGoogleDriveVideo", "setHudTimeout",
                                              "addListeners", "trackGoogleDriveProgress">>
                              /\ UNCHANGED <<pos, playState, events, playPromise,
                                             showPlayButton, lstVars, ytScript, playerRef>>
                     [] ty = "vimeo" /\ getVimeoVideoId(cfg.video_url) # "" ->
                          LET r == setupVimeoVideo(variant, Track, Lst, cfg, now)
                          IN  /\ api = "absent" /\ allowed
                              /\ Allocated(r.s)
                              /\ SetTrack(r.s)
                              /\ SetLst(r.l)
                              /\ showPlayButton' = r.btn
                              /\ lastOps' = <<"loadVideoConfig:settled", resp.kind,
                                              "setupVimeoVideo">>
                              /\ UNCHANGED <<pos, playState, events, playPromise,
                                             gdListeners, gdTimeout, ytScript, playerRef>>
                     [] ty = "youtube" /\ getYouTubeVideoId(cfg.video_url) # "" ->
                          \* loadYouTubePlayer
                          /\ allowed
                          /\ IF api = "absent"
                             THEN /\ ytScript' = "loading"
                                  /\ lastOps' = <<"loadVideoConfig:settled", resp.kind,
                                                  "loadYouTubePlayer">>
                                  /\ UNCHANGED <<playerRef, pos>>
                             ELSE /\ ytScript' = "ready"
                                  /\ playerRef' = "stub"
                                  /\ pos' = StartPosition(storage, storageMode, id)
                                  /\ lastOps' = <<"loadVideoConfig:settled", resp.kind,
                                                  "loadYouTubePlayer", "createYouTubePlayer">>
                          /\ UNCHANGED <<playState, events, playPromise, trackVars,
                                         gdListeners, gdTimeout, showPlayButton, lstVars>>
                     [] OTHER ->
                          \* no id in the URL: no setup runs
                          /\ api = "absent" /\ allowed
                          /\ lastOps' = <<"loadVideoConfig:settled", resp.kind>>
                          /\ UNCHANGED <<pos, playState, events, playPromise, trackVars,
                                         gdListeners, gdTimeout, showPlayButton, lstVars,
                                         ytScript, playerRef>>
        /\ UNCHANGED <<ambFixed, storage, phase, startedEvents, hasTriedAutoplayRef,
                       googleDriveClickedRef, autoplayCheck, triggerCalls>>

\* the promise of video.play() in setupLocalVideo settles
PlayPromiseSettle ==
    /\ playPromise # "none"
    /\ phase \in {"mounted", "unmounted"}
    /\ playPromise' = "none"
    /\ IF playPromise = "rejecting"
       THEN \* .catch(() => setupDocumentClickListener())
            /\ SetLst(setupDocumentClickListener(Lst))
            /\ lastOps' = <<"play.catch", "setupDocumentClickListener">>
            /\ UNCHANGED <<timers, progressIntervalRef, saveProgressIntervalRef,
                           hudOverlayTimeoutRef, trackingStartedRef, pollCreated>>
       ELSE IF variant = "ambient"
       THEN \* part_003: the 500 ms unmute timeout
            /\ lastOps' = <<"play.then", "setTimeout:unmute">>
            /\ UNCHANGED <<lstVars, trackVars>>
       ELSE IF SessionSetThrows(storageMode)
       THEN \* part_002: the throw in .then() lands in the .catch() of the chain
            /\ SetLst(setupDocumentClickListener(Lst))
            /\ lastOps' = <<"play.then", "throw:sessionStorage", "play.catch",
                            "setupDocumentClickListener">>
            /\ UNCHANGED trackVars
       ELSE LET s1 == SetHudTimeout(Track)
                s2 == trackProgress(s1, "local", videoConfig, FALSE, now)
                s3 == startSaving(s2, "local")
            IN  /\ Allocated(s3)
                /\ SetTrack(s3)
                /\ lastOps' = <<"play.then", "setHudTimeout", "trackProgress",
                                "startSaving">>
                /\ UNCHANGED lstVars
    /\ UNCHANGED <<ambFixed, storage, phase, fetchPending, videoConfig, playerRef,
                   localVideoRef, currentVideoIdRef, ytScript, playState, pos, events,
                   startedEvents, gdListeners, hasTriedAutoplayRef,
                   googleDriveClickedRef, showPlayButton, autoplayCheck, gdTimeout,
                   triggerCalls>>

\* playback started: handleLocalVideoPlay / onStateChange(PLAYING) of the
\* ambient variants, which also take the document listeners away
AmbPlaybackStarted(ev, src, name, be) ==
    /\ events # <<>> /\ Head(events) = ev
    /\ events' = Tail(events)
    /\ startedEvents' = Count(startedEvents)
    /\ IF SessionThrows
       THEN /\ lastOps' = <<name, "throw:sessionStorage">>
            /\ UNCHANGED <<trackVars, lstVars>>
       ELSE LET s1 == SetHudTimeout(Track)
                s2 == trackProgress(s1, src, videoConfig, be, now)
                s3 == startSaving(s2, src)
            IN  /\ Allocated(s3)
                /\ SetTrack(s3)
                /\ SetLst(removeDocumentListeners(Lst))
                /\ lastOps' = <<name, "removeListeners", "setHudTimeout",
                                "trackProgress", "startSaving">>
    /\ UNCHANGED <<ambFixed, storage, phase, fetchPending, videoConfig, playerRef,
                   localVideoRef, currentVideoIdRef, ytScript, playState, pos,
                   gdListeners, hasTriedAutoplayRef, googleDriveClickedRef,
                   showPlayButton, playPromise, autoplayCheck, gdTimeout,
                   triggerCalls>>

AmbHandleLocalVideoPlay ==
    /\ phase = "mounted" /\ IsLocal
    /\ AmbPlaybackStarted("play", "local", "handleLocalVideoPlay", buttonEnabled)

AmbOnStateChangePlaying ==
    /\ phase \in {"mounted", "unmounted"} /\ ~IsLocal
    /\ AmbPlaybackStarted("PLAYING", "yt", "onStateChange:PLAYING", FALSE)

\* window.onYouTubeIframeAPIReady: createYouTubePlayer(videoId); the
\* #youtube-player element is rendered as long as the component is mounted
AmbYouTubeApiReady(attach) ==
    /\ ytScript = "loading"
    /\ phase \in {"mounted", "unmounted"}
    /\ ytScript' = "ready"
    /\ IF phase = "mounted"
       THEN /\ attach = "attached"
            /\ playerRef' = "stub"
            /\ pos' = StartPosition(storage, storageMode,
                                    getYouTubeVideoId(videoConfig.video_url))
       ELSE /\ attach \in {"throws", "inert"}
            /\ playerRef' = IF attach = "inert" THEN "inert" ELSE playerRef
            /\ pos' = pos
    /\ lastOps' = <<"onYouTubeIframeAPIReady", "createYouTubePlayer", attach>>
    /\ UNCHANGED <<ambFixed, storage, phase, fetchPending, videoConfig, localVideoRef,
                   trackVars, currentVideoIdRef, playState, events, startedEvents,
                   lstVars, gdListeners, hasTriedAutoplayRef, googleDriveClickedRef,
                   showPlayButton, playPromise, autoplayCheck, gdTimeout,
                   triggerCalls>>

\* events.onReady: player.playVideo() and the 1000 ms timeout that looks at
\* the player state; the browser may or may not let the playback start
AmbYouTubeReady(starts) ==
    /\ playerRef = "stub"
    /\ phase = "mounted"
    /\ playerRef' = "ready"
    /\ autoplayCheck' = TRUE
    /\ IF starts
       THEN /\ Len(events) < MaxEvents
            /\ playState' = "playing"
            /\ events' = Append(events, "PLAYING")
       ELSE UNCHANGED <<playState, events>>
    /\ lastOps' = <<"onReady", "playVideo", "setTimeout:autoplayCheck">>
    /\ UNCHANGED <<ambFixed, storage, phase, fetchPending, videoConfig, localVideoRef,
                   trackVars, currentVideoIdRef, ytScript, pos, startedEvents,
                   lstVars, gdListeners, hasTriedAutoplayRef, googleDriveClickedRef,
                   showPlayButton, playPromise, gdTimeout, triggerCalls>>

\* the 1000 ms timeout of onReady fires; nothing clears it at teardown
AutoplayCheck ==
    /\ autoplayCheck
    /\ phase \in {"mounted", "unmounted"}
    /\ autoplayCheck' = FALSE
    /\ hasTriedAutoplayRef' = TRUE
    /\ IF ~hasTriedAutoplayRef /\ playState # "playing"
       THEN /\ SetLst(setupDocumentClickListener(Lst))
            /\ lastOps' = <<"autoplayCheck", "setupDocumentClickListener">>
       ELSE \* the player plays (unMute, setVolume) or the check has run before
            UNCHANGED <<lastOps, lstVars>>
    /\ UNCHANGED <<ambFixed, storage, phase, fetchPending, videoConfig, playerRef,
                   localVideoRef, trackVars, currentVideoIdRef, ytScript, playState,
                   pos, events, startedEvents, gdListeners, googleDriveClickedRef,
                   showPlayButton, playPromise, gdTimeout, triggerCalls>>

\* the 100 ms timeout of setupGoogleDriveVideo fires: triggerGoogleDrivePlay.
\* With the #google-drive-player iframe in the document it dispatches a
\* bubbling keydown at the iframe, which the capture listener of the document
\* receives: handleFirstInteraction runs (its triggerGoogleDrivePlay returns
\* at the latch) and removes the five listeners
GoogleDriveTimeout ==
    /\ gdTimeout
    /\ phase \in {"mounted", "unmounted"}
    /\ gdTimeout' = FALSE
    /\ googleDriveClickedRef' = TRUE
    /\ IF phase = "mounted" /\ ~googleDriveClickedRef
       THEN /\ gdListeners' = gdListeners \ (IF "keydown" \in gdListeners THEN GdTypes ELSE {})
            /\ lastOps' = <<"triggerGoogleDrivePlay", "dispatch:keydown",
                            "removeListeners">>
       ELSE UNCHANGED <<lastOps, gdListeners>>
    /\ UNCHANGED <<ambFixed, storage, phase, fetchPending, videoConfig, playerRef,
                   localVideoRef, trackVars, currentVideoIdRef, ytScript, playState,
                   pos, events, startedEvents, lstVars,
                   hasTriedAutoplayRef, showPlayButton, playPromise, autoplayCheck,
                   triggerCalls>>

\* a click, touchstart, keydown, scroll or mousemove reaches the document
\* and the handler registered for that type runs; a signal no handler is
\* registered for runs no code and changes nothing
Interaction(ty) ==
    /\ phase \in {"mounted", "unmounted"}
    /\ ty \in docListeners \cup gdListeners
    /\ IF ty \in docListeners
       THEN \* handleAnyInteraction: triggerPlay(), then the listeners go
            LET viaLocal == IsLocal /\ localVideoRef
                viaPlayer == ~viaLocal /\ playerRef = "ready"
            IN  /\ triggerCalls' = Count(triggerCalls)
                /\ SetLst(handleAnyInteraction(Lst, ty))
                /\ IF viaLocal \/ viaPlayer
                   THEN /\ Len(events) < MaxEvents
                        /\ Resume(IF viaLocal THEN "play" ELSE "PLAYING", events, FALSE)
                        /\ lastOps' = <<"interaction", "triggerPlay", "play",
                                        "removeListeners">>
                   ELSE /\ lastOps' = <<"interaction", "triggerPlay",
                                        "removeListeners">>
                        /\ UNCHANGED <<playState, pos, events>>
                /\ UNCHANGED <<gdListeners, googleDriveClickedRef>>
       ELSE \* handleFirstInteraction: triggerGoogleDrivePlay(), five removals
            /\ googleDriveClickedRef' = TRUE
            /\ gdListeners' = {}
            /\ lastOps' = <<"interaction", "triggerGoogleDrivePlay",
                            "removeListeners">>
            /\ UNCHANGED <<lstVars, triggerCalls, playState, pos, events>>
    /\ UNCHANGED <<ambFixed, storage, phase, fetchPending, videoConfig, playerRef,
                   localVideoRef, trackVars, currentVideoIdRef, ytScript,
                   startedEvents, hasTriedAutoplayRef, showPlayButton, playPromise,
                   autoplayCheck, gdTimeout>>

\* part_002: the click on the vimeo play button
startVimeoManually ==
    /\ phase = "mounted"
    /\ variant = "hybrid"
    /\ videoConfig.video_type = "vimeo"
    /\ showPlayButton
    /\ showPlayButton' = FALSE
    /\ volume' = 100
    /\ IF SessionSetThrows(storageMode)
       THEN /\ lastOps' = <<"startVimeoManually", "postMessage:play",
                            "throw:sessionStorage">>
            /\ UNCHANGED trackVars
       ELSE LET s1 == SetHudTimeout(Track)
                s2 == trackProgress(s1, "elapsed", videoConfig, buttonEnabled, now)
            IN  /\ Allocated(s2)
                /\ SetTrack(s2)
                /\ lastOps' = <<"startVimeoManually", "postMessage:play",
                                "setHudTimeout", "trackVimeoProgress">>
    /\ UNCHANGED <<ambFixedButVolume, storage, phase, fetchPending, videoConfig, playerRef,
                   localVideoRef, currentVideoIdRef, ytScript, playState, pos, events,
                   startedEvents, lstVars, gdListeners, hasTriedAutoplayRef,
                   googleDriveClickedRef, playPromise, autoplayCheck, gdTimeout,
                   triggerCalls>>

\* <video loop>: at its end the media starts over, without pause or ended
LoopRestart ==
    /\ PlayerLive /\ IsLocal
    /\ playState = "playing"
    /\ pos = MaxTime
    /\ pos' = 0
    /\ UNCHANGED <<ambFixed, storage, phase, fetchPending, videoConfig, playerRef,
                   localVideoRef, trackVars, currentVideoIdRef, ytScript, playState,
                   events, startedEvents, lstVars, gdListeners, hasTriedAutoplayRef,
                   googleDriveClickedRef, showPlayButton, playPromise, autoplayCheck,
                   gdTimeout, triggerCalls, lastOps>>

\* the player is interrupted (a pause of its own, the end of the media) until
\* a second start of the playback has been handled
Interruptible == startedEvents < 2

AmbPlayerPause == Interruptible /\ PlayerPause

\* the YouTube player reports the end of the media
AmbPlayerEnd == Interruptible /\ ~IsLocal /\ PlayerEnd

\* the cleanups of the effects: three timers are cleared and the listeners
\* held by documentClickListenerRef are removed (the ref keeps its value);
\* the listeners of setupGoogleDriveVideo and the pending timeouts stay
AmbUnmount ==
    /\ phase = "mounted"
    /\ phase' = "unmounted"
    /\ timers' = ClearTimer(ClearTimer(ClearTimer(timers, hudOverlayTimeoutRef),
                                       saveProgressIntervalRef),
                            progressIntervalRef)
    /\ docListeners' = IF documentClickListenerRef THEN {} ELSE docListeners
    /\ localVideoRef' = FALSE
    /\ events' = IF IsLocal THEN <<>> ELSE events
    /\ playState' = IF IsLocal THEN "idle" ELSE playState
    /\ lastOps' = <<"unmount", "clearTimeout:hud", "clearInterval:save",
                    "removeListeners", "clearInterval:poll">>
    /\ UNCHANGED <<ambFixed, storage, fetchPending, videoConfig, playerRef,
                   progressIntervalRef, saveProgressIntervalRef, hudOverlayTimeoutRef,
                   trackingStartedRef, pollCreated, currentVideoIdRef, ytScript, pos,
                   startedEvents, documentClickListenerRef, armCalls, gdListeners,
                   hasTriedAutoplayRef, googleDriveClickedRef, showPlayButton,
                   playPromise, autoplayCheck, gdTimeout, triggerCalls>>

\* the responses the ambient variants are run with: the server configures
\* the smallest delay
AmbResponses ==
    {r \in Responses : r.kind = "video" => r.video.button_delay_seconds = 1}

AmbientNext ==
    \/ Mount
    \/ \E resp \in AmbResponses, api \in {"absent", "loaded"}, allowed \in BOOLEAN :
          AmbFetchSettle(resp, api, allowed)
    \/ PlayPromiseSettle
    \/ AmbHandleLocalVideoPlay
    \/ AmbOnStateChangePlaying
    \/ \E attach \in {"attached", "throws", "inert"} : AmbYouTubeApiReady(attach)
    \/ \E starts \in BOOLEAN : AmbYouTubeReady(starts)
    \/ AutoplayCheck
    \/ GoogleDriveTimeout
    \/ \E ty \in InteractionTypes : Interaction(ty)
    \/ startVimeoManually
    \/ TimeAdvance
    \/ LoopRestart
    \/ AmbPlayerPause
    \/ AmbPlayerEnd
    \/ handleLocalVideoPause
    \/ OnStateChangePaused
    \/ OnStateChangeEnded
    \/ \E t \in timers : PollTick(t)
    \/ \E t \in timers : SaveTick(t)
    \/ \E t \in timers : HudFire(t)
    \/ AmbUnmount
    \/ BeforeUnload

AmbientSpec == AmbientInit /\ [][AmbientNext]_vars

AmbientTypeOK ==
    /\ TypeOK
    /\ variant \in {"hybrid", "ambient"}
    /\ docListeners \subseteq DocTypes
    /\ gdListeners \subseteq GdTypes
    /\ playPromise \in {"none", "resolving", "rejecting"}

\* ------------------------------------- the analytics tracker and routes
AnalyticsInit ==
    /\ storage = EmptyStorage
    /\ storageMode = "ok"
    /\ ytScript = "absent"
    /\ variant = "click"
    /\ InitComponent
    /\ side \in {"client", "server"}
    /\ doNotTrack \in (IF side = "client" THEN DntProfiles ELSE {NoDnt})
    /\ isInitialized = FALSE
    /\ isTrackingAllowed = FALSE
    /\ initRunning = FALSE
    /\ supabaseWrites = NoWrites(ClientTables)
    /\ dbWrites = NoWrites(ServerTables)
    /\ ServiceIdle

\* everything but the analytics variables and lastOps
videoVars == <<storeVars, storeObs, phase, fetchPending, videoConfig, buttonEnabled,
               showHudOverlay, showPlayOverlay, playerRef, localVideoRef, trackVars,
               currentVideoIdRef, ytScript, playState, pos, events, now, loadCalls,
               enableCalls, playStartCalls, startedEvents, qualTick, lateEffect,
               clickEnabled, ambientVars, volume, serviceVars>>

\* init() up to its first await
TrackerInit ==
    /\ side = "client"
    /\ ~isInitialized /\ ~initRunning
    /\ IF ClientBlocks(doNotTrack)
       THEN /\ isInitialized' = TRUE
            /\ isTrackingAllowed' = FALSE
            /\ initRunning' = FALSE
            /\ lastOps' = <<"init", "doNotTrack", "return">>
       ELSE /\ isTrackingAllowed' = TRUE
            /\ initRunning' = TRUE
            /\ isInitialized' = FALSE
            /\ lastOps' = <<"init", "allowed", "getLocationData">>
    /\ UNCHANGED <<videoVars, side, doNotTrack, supabaseWrites, dbWrites>>

\* the rest of init(): registerVisitor (insert or update of visitors),
\* collectAndSendSignals (visitor_signals, inferred_demographics with its
\* confidence of 0.5, update of visitors), setupEventListeners
TrackerInitFinish ==
    /\ side = "client"
    /\ initRunning
    /\ initRunning' = FALSE
    /\ isInitialized' = TRUE
    /\ supabaseWrites' = Wrote(Wrote(Wrote(Wrote(supabaseWrites, "visitors"),
                                           "visitor_signals"),
                                     "inferred_demographics"), "visitors")
    /\ lastOps' = <<"init", "registerVisitor", "collectAndSendSignals",
                    "setupEventListeners">>
    /\ UNCHANGED <<videoVars, side, doNotTrack, isTrackingAllowed, dbWrites>>

TrackerCall_AllowedOnly(name, table) ==
    /\ side = "client"
    /\ IF ~isTrackingAllowed
       THEN /\ lastOps' = <<name, "return">>
            /\ UNCHANGED supabaseWrites
       ELSE /\ lastOps' = <<name, "insert", table>>
            /\ supabaseWrites' = Wrote(supabaseWrites, table)
    /\ UNCHANGED <<videoVars, side, doNotTrack, isInitialized, isTrackingAllowed,
                   initRunning, dbWrites>>

\* trackEvent, trackPageView, trackRegistration:
\* if (!this.isInitialized || !this.isTrackingAllowed) return; then the insert
TrackerCall(name, table) ==
    /\ side = "client"
    /\ IF ~isInitialized \/ ~isTrackingAllowed
       THEN /\ lastOps' = <<name, "return">>
            /\ UNCHANGED supabaseWrites
       ELSE /\ lastOps' = <<name, "insert", table>>
            /\ supabaseWrites' = Wrote(supabaseWrites, table)
    /\ UNCHANGED <<videoVars, side, doNotTrack, isInitialized, isTrackingAllowed,
                   initRunning, dbWrites>>

trackEvent == TrackerCall("trackEvent", "events")
trackPageView == TrackerCall("trackPageView", "page_views")
trackRegistration == TrackerCall("trackRegistration", "registrations")

HeaderValues == {"1", "0", NoValue}

isDNTEnabled_Never(headerDNT) == FALSE

\* isDNTEnabled: req.headers.dnt === '1'
isDNTEnabled(headerDNT) == headerDNT = "1"

Routes == {"visitor", "event", "pageview", "registration"}
RouteTable(route) ==
    CASE route = "visitor" -> "visitors"
      [] route = "event" -> "events"
      [] route = "pageview" -> "page_views"
      [] OTHER -> "registrations"

\* POST /api/analytics/<route>; body "malformed": reading it or the statement
\* throws and the catch answers 500
AnalyticsRequest(route, headerDNT, body) ==
    /\ side = "server"
    /\ IF isDNTEnabled(headerDNT)
       THEN /\ lastOps' = <<route, headerDNT, "200", "success", "DNT respeitado">>
            /\ UNCHANGED dbWrites
       ELSE IF body = "malformed"
       THEN /\ lastOps' = <<route, headerDNT, "500", "error">>
            /\ UNCHANGED dbWrites
       ELSE /\ lastOps' = <<route, headerDNT, "200", "success">>
            /\ dbWrites' = Wrote(dbWrites, RouteTable(route))
    /\ UNCHANGED <<videoVars, side, doNotTrack, isInitialized, isTrackingAllowed,
                   initRunning, supabaseWrites>>

AnalyticsNext ==
    \/ TrackerInit
    \/ TrackerInitFinish
    \/ trackEvent
    \/ trackPageView
    \/ trackRegistration
    \/ \E route \in Routes, headerDNT \in HeaderValues, body \in {"valid", "malformed"} :
          AnalyticsRequest(route, headerDNT, body)

AnalyticsSpec == AnalyticsInit /\ [][AnalyticsNext]_vars

AnalyticsTypeOK ==
    /\ side \in {"none", "client", "server"}
    /\ doNotTrack \in DntProfiles
    /\ isInitialized \in BOOLEAN
    /\ isTrackingAllowed \in BOOLEAN
    /\ initRunning \in BOOLEAN
    /\ supabaseWrites \in [ClientTables -> 0..MaxRows]
    /\ dbWrites \in [ServerTables -> 0..MaxRows]

\* ------------------------------------------------------------------ claims
Contains(ops, tag) == \E i \in 1..Len(ops) : ops[i] = tag

\* C1: within one mount the outward unlock callback onButtonEnable is
\* invoked at most once, whatever the backend and the sequence of poll ticks.
C1_UnlockAtMostOnce == enableCalls <= 1

\* C2: the first invocation of onButtonEnable happens on the first poll tick
\* whose observed time is >= button_delay_seconds: a tick that invokes it has
\* observed a time at or above the threshold, the tracking latch is set by
\* then, and no qualifying tick passes without the invocation having happened.
C2_FirstQualifyingTick ==
    /\ (lastOps[1] = "pollTick" /\ Contains(lastOps, "onButtonEnable"))
          => lastOps[2] = "reached"
    /\ enableCalls > 0 => (trackingStartedRef /\ qualTick)
    /\ qualTick => enableCalls > 0

C2_Witness ==
    /\ enableCalls = 1
    /\ lastOps = <<"pollTick", "reached", "setButtonEnabled", "onButtonEnable">>
    /\ \E t \in timers : t.kind = "poll" /\ t.src = "local" /\ pos = t.delay

\* C3: after the component has been unmounted there is no further Progress
\* Store write and no further onButtonEnable or onPlayStart invocation.
C3_QuietAfterTeardown == ~lateEffect

\* C4: the unlock poll interval is created at most once per mount, over any
\* sequence of playback-started events.
C4_PollCreatedOnce == pollCreated <= 1

C4_Witness ==
    /\ startedEvents >= 2
    /\ pollCreated = 1
    /\ trackingStartedRef
    /\ \E t \in timers : t.kind = "poll"

\* C5: with a working storage, after saveProgress(id, t) for a time t the
\* value getSavedProgress(id) returns is t, also after a reload; after
\* clearProgress(id) it is 0.
C5_RoundTrip ==
    \A id \in StoreIds :
        /\ (lastWrite[id].op = "save" /\ lastWrite[id].time[1] = "num" /\ storageMode = "ok")
              => getSavedProgress(storage, storageMode, id).value = lastWrite[id].time
        /\ lastWrite[id].op = "clear"
              => getSavedProgress(storage, storageMode, id).value = Num(0)

C5_Witness ==
    /\ lastWrite["a"] = [op |-> "save", time |-> Num(MaxTime), reloaded |-> TRUE]
    /\ lastWrite["b"].op = "clear"
    /\ lastOps = <<"getSavedProgress", "a">>
    /\ getResult.value = Num(MaxTime)
    /\ storageMode = "ok"

\* C6: saveProgress(idA, t) and clearProgress(idA) leave the value
\* getSavedProgress(idB) returns unchanged for every other identity idB.
C6_Namespacing ==
    [][\A idA \in StoreIds, idB \in StoreIds :
          (idA # idB /\ lastOps' \in {<<"saveProgress", idA>>, <<"clearProgress", idA>>})
             => getSavedProgress(storage', storageMode', idB)
                  = getSavedProgress(storage, storageMode, idB)]_vars

C6_Witness ==
    /\ lastOps = <<"saveProgress", "a">>
    /\ storageMode = "ok"
    /\ getSavedProgress(storage, storageMode, "a").value = Num(1)
    /\ getSavedProgress(storage, storageMode, "b").value = Num(2)

\* C7: getSavedProgress returns 0 and does not throw when the entry is
\* absent, when the text is not JSON, when the parsed value has no time
\* member or a null one (or is null itself), and when the read throws.
Degraded(text, mode) ==
    \/ GetItemThrows(mode)
    \/ text.k \in {"absent", "empty", "garbage", "null"}
    \/ text.k = "obj" /\ text.time \in {Missing, <<"null", 0>>}

WriteHandlers ==
    {"handleLocalVideoPause", "onStateChange:PAUSED", "handleLocalVideoEnded",
     "onStateChange:ENDED", "saveTick", "handleBeforeUnload"}
IntervalsLive ==
    {t.id : t \in {u \in timers : u.kind \in {"poll", "save"}}}

C8_WriteFailureSwallowed ==
    [][lastOps'[1] \in WriteHandlers
          => /\ ~Contains(lastOps', "throw:saveProgress")
             /\ ~Contains(lastOps', "throw:clearProgress")
             /\ Contains(lastOps', "saveProgress") /\ lastOps'[1] \in
                   {"handleLocalVideoPause", "onStateChange:PAUSED"}
                   => lastOps'[Len(lastOps')] = "play"
             /\ trackingStartedRef' = trackingStartedRef
             /\ progressIntervalRef' = progressIntervalRef
             /\ saveProgressIntervalRef' = saveProgressIntervalRef
             /\ buttonEnabled' = buttonEnabled
             /\ IntervalsLive' = IntervalsLive]_vars

C8_Witness ==
    /\ storageMode = "quota"
    /\ lastOps = <<"onStateChange:PAUSED", "saveProgress", "play">>
    /\ trackingStartedRef
    /\ storage[StoreKey(currentVideoIdRef)] = NoText
    /\ playState = "playing"

\* C9: the end-of-media handler clears the progress of the current identity,
\* then seeks to 0, then calls play; it leaves the player playing and
\* getSavedProgress(identity) at 0.
EndedHandlers == {"handleLocalVideoEnded", "onStateChange:ENDED"}

C9_EndedLoops ==
    [][(lastOps' # lastOps /\ lastOps'[1] \in EndedHandlers)
          => /\ lastOps' = <<lastOps'[1], "clearProgress", "seek0", "play">>
             /\ getSavedProgress(storage', storageMode', currentVideoIdRef').value = Num(0)
             /\ phase' = "mounted" => (playState' = "playing" /\ pos' = 0)]_vars

C9_Witness ==
    /\ lastOps = <<"handleLocalVideoEnded", "clearProgress", "seek0", "play">>
    /\ storageMode = "ok"
    /\ storage[StoreKey("p")] = NoText
    /\ playState = "playing"
    /\ pos = 0

\* C10: loadVideoConfig is called once per mount; a request that settles
\* with a network failure, an unparseable body or no video leaves the
\* default configuration, and once the request has settled the mounted
\* component has a configuration.
FailureKinds == {"networkError", "badBody", "nullBody", "noVideo"}

C10_ConfigFallback ==
    /\ phase = "created" => loadCalls = 0
    /\ phase # "created" => loadCalls = 1
    /\ (phase = "mounted" /\ ~fetchPending) => videoConfig # NullConfig
    /\ (phase = "mounted" /\ lastOps[1] = "loadVideoConfig:settled"
           /\ lastOps[2] \in FailureKinds)
          => videoConfig = DefaultConfig

C10_Witness ==
    /\ phase = "mounted"
    /\ lastOps = <<"loadVideoConfig:settled", "nullBody">>
    /\ videoConfig = DefaultConfig
    /\ loadCalls = 1

\* C11: with a malformed video identity (the URL yields no id for the
\* configured backend) tracking is never armed and onButtonEnable is never
\* invoked, whatever is clicked and however much time passes.
Malformed(cfg) ==
    \/ cfg.video_type = "vimeo" /\ getVimeoVideoId(cfg.video_url) = ""
    \/ cfg.video_type = "google_drive" /\ getGoogleDriveFileId(cfg.video_url) = ""
    \/ cfg.video_type = "youtube" /\ getYouTubeVideoId(cfg.video_url) = ""

C11_MalformedNeverArms ==
    (videoConfig # NullConfig /\ Malformed(videoConfig))
       => (~trackingStartedRef /\ enableCalls = 0)

\* C15: as long as the play overlay has not been clicked no playback has
\* started, the tracking latch is false, no poll or save timer exists and
\* neither onPlayStart nor onButtonEnable has been invoked; onPlayStart is
\* invoked by the click handler only.
C15_NothingBeforeClick ==
    /\ showPlayOverlay
          => /\ playState = "idle"
             /\ events = <<>>
             /\ ~trackingStartedRef
             /\ \A t \in timers : t.kind \notin {"poll", "save"}
             /\ playStartCalls = 0
             /\ enableCalls = 0
    /\ Contains(lastOps, "onPlayStart") => lastOps[1] = "handleManualPlay"
    /\ playStartCalls > 0 => ~showPlayOverlay

C15_Witness ==
    /\ phase = "mounted"
    /\ showPlayOverlay
    /\ videoConfig.video_type = "youtube"
    /\ ~Malformed(videoConfig)
    /\ ytScript = "ready"
    /\ now = MaxNow
    /\ playState = "idle"

\* C16: with a valid configuration of any backend kind, one click on the
\* play overlay starts playback and leads to armed tracking: once the click
\* handler has run on the mounted component, tracking is armed, or playback
\* has started, or the step that starts it is under way (the iframe API is
\* loading, the player is waiting for onReady, a player event is queued).
ValidConfig(cfg) ==
    /\ cfg # NullConfig
    /\ ~Malformed(cfg)
    /\ cfg.video_type = "local" => cfg.video_path # ""

StartUnderWay ==
    \/ trackingStartedRef
    \/ playState = "playing"
    \/ events # <<>>
    \/ ytScript = "loading"
    \/ playerRef = "stub"

C16_ClickStartsPlayback ==
    (phase = "mounted" /\ ~showPlayOverlay /\ ValidConfig(videoConfig)
        /\ lastOps[1] = "handleManualPlay")
       => StartUnderWay

\* C17: a pause of the player is never answered by the controller calling
\* play again.
PausedHandlers == {"handleLocalVideoPause", "onStateChange:PAUSED"}

C17_NoAutoResume ==
    lastOps[1] \in PausedHandlers => ~Contains(lastOps, "play")

\* C19: unlock is not a stop condition.  From the tick that invokes
\* onButtonEnable on, and as long as the component stays mounted, the poll
\* interval and the save interval stay alive, an end-of-media event still
\* clears the progress, seeks to 0 and plays, and a save tick still calls
\* saveProgress whenever the player has a position > 0 and an identity.
LiveKinds == {t.kind : t \in {u \in timers : u.kind \in {"poll", "save"}}}

C19_UnlockKeepsRunning ==
    [][(enableCalls' > 0 /\ phase = "mounted" /\ phase' = "mounted")
          => /\ LiveKinds \subseteq LiveKinds'
             /\ "poll" \in LiveKinds'
             /\ progressIntervalRef' = progressIntervalRef
             /\ (lastOps' # lastOps /\ lastOps'[1] \in EndedHandlers /\ PlayerLive)
                   => /\ lastOps' = <<lastOps'[1], "clearProgress", "seek0", "play">>
                      /\ playState' = "playing"
                      /\ pos' = 0
             /\ \A t \in timers' :
                   (t.kind = "save" /\ HasPlayer(t.src)' /\ pos' > 0
                       /\ currentVideoIdRef' # "")
                      => SaveDue(t)']_vars

C19_Witness ==
    /\ phase = "mounted"
    /\ enableCalls >= 1
    /\ buttonEnabled
    /\ lastOps = <<"onStateChange:ENDED", "clearProgress", "seek0", "play">>
    /\ LiveKinds = {"poll", "save"}
    /\ playState = "playing"
    /\ pos = 0

\* C20: the save timer is a timer of its own (3000 ms, the poll has 300 ms);
\* a save tick calls saveProgress exactly when the player's current time is
\* > 0 and the identity is not empty, and what it writes under the current
\* identity is {time: current time, timestamp: now}; a tick at time 0 writes
\* nothing.
C20_SaveTicks ==
    [][/\ \A t \in timers :
            /\ t.kind = "save" => t.period = SAVE_INTERVAL_MS
            /\ t.kind = "poll" => t.period = POLL_INTERVAL_MS
            /\ t.kind = "save"
                  => (SaveDue(t) <=> (HasPlayer(t.src) /\ pos > 0
                                         /\ currentVideoIdRef # ""))
       /\ \A t1 \in timers, t2 \in timers :
            (t1.kind = "save" /\ t2.kind = "poll") => t1.id # t2.id
       /\ (lastOps' = <<"saveTick", "saveProgress">>
              /\ (lastOps' # lastOps \/ storage' # storage))
             => /\ pos > 0
                /\ currentVideoIdRef # ""
                /\ storageMode = "ok"
                      => storage' = [storage EXCEPT ![StoreKey(currentVideoIdRef)] =
                                        ObjText(<<"num", pos>>, <<"num", now>>)]
                /\ storageMode # "ok" => storage' = storage
       /\ ~(pos = 0 /\ lastOps'[1] = "saveTick" /\ lastOps[1] # "saveTick")]_vars

C20_Witness ==
    /\ lastOps = <<"saveTick", "saveProgress">>
    /\ storageMode = "ok"
    /\ pos > 0
    /\ storage[StoreKey(currentVideoIdRef)] = ObjText(<<"num", pos>>, <<"num", now>>)
    /\ \E t1 \in timers, t2 \in timers :
          /\ t1.kind = "save" /\ t1.period = SAVE_INTERVAL_MS
          /\ t2.kind = "poll" /\ t2.period = POLL_INTERVAL_MS
          /\ t1.id # t2.id

\* C12: once setupDocumentClickListener has armed the four document
\* listeners, the first click, touchstart, keydown or scroll runs triggerPlay
\* exactly once and leaves none of the four registered (and the ref empty);
\* triggerPlay runs in no other step, so a later signal, which finds no
\* listener, calls it zero times, and there is at most one triggerPlay per
\* arming; the four listeners come and go together; arming while armed
\* registers nothing.
TriggerCount(ops) == Cardinality({i \in 1..Len(ops) : ops[i] = "triggerPlay"})

C12_FirstSignalOnly ==
    [][/\ (lastOps' # lastOps /\ lastOps'[1] = "interaction" /\ docListeners # {})
            => /\ TriggerCount(lastOps') = 1
               /\ triggerCalls' = Count(triggerCalls)
               /\ docListeners' = {}
               /\ ~documentClickListenerRef'
       /\ (triggerCalls' # triggerCalls \/ (lastOps' # lastOps /\ Contains(lastOps', "triggerPlay")))
            => (documentClickListenerRef /\ docListeners = DocTypes)
       /\ docListeners' \in {{}, DocTypes}
       /\ triggerCalls' <= armCalls'
       /\ documentClickListenerRef' => setupDocumentClickListener(Lst)' = Lst'
      ]_vars

C12_Witness ==
    /\ phase = "mounted"
    /\ lastOps = <<"interaction", "triggerPlay", "play", "removeListeners">>
    /\ armCalls = 1
    /\ triggerCalls = 1
    /\ docListeners = {}
    /\ ~documentClickListenerRef
    /\ playState = "playing"

\* C13: after the teardown of the component no document-level listener it
\* registered is still registered: neither handleAnyInteraction nor the
\* handleFirstInteraction of setupGoogleDriveVideo, for every backend and
\* also when no interaction happened before the teardown.
C13_NoListenerAfterTeardown ==
    phase = "unmounted" => (docListeners = {} /\ gdListeners = {})

\* the teardown itself, without anything running after it, leaves the five
\* listeners of setupGoogleDriveVideo
C13_LeftByTeardown ==
    /\ phase = "unmounted"
    /\ lastOps[1] = "unmount"
    /\ videoConfig.video_type = "google_drive"
    /\ gdListeners = GdTypes
    /\ ~googleDriveClickedRef

\* a play() rejection or the 1000 ms check of onReady that runs after the
\* teardown arms the four listeners of handleAnyInteraction
C13_ArmedAfterTeardown ==
    /\ phase = "unmounted"
    /\ docListeners = DocTypes
    /\ triggerCalls = 0

\* C14: in no state of one mount are the document listeners of
\* handleAnyInteraction armed while the vimeo play button is shown; a vimeo
\* configuration never arms the document listeners and never reaches
\* triggerPlay, and only a local or youtube configuration arms them (the
\* button is rendered for video_type vimeo alone).
ButtonActive ==
    /\ phase = "mounted"
    /\ variant = "hybrid"
    /\ videoConfig.video_type = "vimeo"
    /\ showPlayButton

ListenerArmed == documentClickListenerRef \/ docListeners # {}

C14_PoliciesExclusive ==
    /\ ~(ButtonActive /\ ListenerArmed)
    /\ videoConfig.video_type = "vimeo" => (armCalls = 0 /\ triggerCalls = 0)
    /\ armCalls > 0 => videoConfig.video_type \in {"local", "youtube"}

C14_Witness ==
    /\ ButtonActive
    /\ lastOps = <<"loadVideoConfig:settled", "video", "setupVimeoVideo">>
    /\ getVimeoVideoId(videoConfig.video_url) # ""
    /\ ~ListenerArmed
    /\ ~trackingStartedRef

\* C18: in the ambient variants the pause handler of the <video> and the
\* PAUSED branch of onStateChange save the position the player is at under
\* the current identity and then call play, in that order and in the one
\* handler; while the component is mounted the player is playing again when
\* the handler returns, and it is paused only as long as its pause event
\* waits for delivery.
PauseEvents == {"pause", "PAUSED"}

C18_PauseAnswered ==
    [][/\ (lastOps' # lastOps /\ lastOps'[1] \in PausedHandlers)
            => /\ lastOps' = <<lastOps'[1], "saveProgress", "play">>
               /\ currentVideoIdRef # ""
               /\ storageMode = "ok" =>
                     getSavedProgress(storage', storageMode', currentVideoIdRef').value
                        = Num(pos)
               /\ phase' = "mounted" => playState' = "playing"
       /\ (phase' = "mounted" /\ playState' = "paused")
            => \E i \in 1..Len(events') : events'[i] \in PauseEvents
      ]_vars

C18_Witness ==
    /\ variant = "ambient"
    /\ phase = "mounted"
    /\ lastOps = <<"handleLocalVideoPause", "saveProgress", "play">>
    /\ storageMode = "ok"
    /\ pos = 1
    /\ getSavedProgress(storage, storageMode, currentVideoIdRef).value = Num(1)
    /\ playState = "playing"

\* C21: the unmount of the component and handleBeforeUnload both write the
\* position the player is at under the current identity: when the player has
\* a position > 0, an identity and a storage that takes writes, the stored
\* position after the step is the position at the step.
LeaveHandlers == {"unmount", "handleBeforeUnload"}

HasPosition ==
    /\ IF IsLocal THEN localVideoRef ELSE playerRef = "ready"
    /\ currentVideoIdRef # ""
    /\ pos > 0

C21_FinalWrite ==
    [][(lastOps' # lastOps /\ lastOps'[1] \in LeaveHandlers /\ HasPosition
           /\ storageMode = "ok")
          => getSavedProgress(storage', storageMode', currentVideoIdRef').value
                = Num(pos)]_vars

\* the half of C21 that handleBeforeUnload does
C21_BeforeUnloadWrites ==
    [][(lastOps' # lastOps /\ lastOps'[1] = "handleBeforeUnload" /\ HasPosition
           /\ storageMode = "ok")
          => getSavedProgress(storage', storageMode', currentVideoIdRef').value
                = Num(pos)]_vars

\* C22: with Do Not Track switched on, no step of the tracker sends a write
\* statement: init registers no visitor and sends no signals and leaves
\* tracking disallowed, and trackEvent, trackPageView and trackRegistration
\* return before their insert; a request to /api/analytics/visitor, /event,
\* /pageview or /registration with the header DNT: 1 runs no INSERT and no
\* UPDATE and is answered with status 200 and success.
C22_DoNotTrack ==
    [][/\ (side = "client" /\ DntOn(doNotTrack))
            => /\ supabaseWrites' = supabaseWrites
               /\ ~isTrackingAllowed'
               /\ ~initRunning'
               /\ lastOps' # lastOps => lastOps'[Len(lastOps')] = "return"
       /\ (side = "server" /\ lastOps' # lastOps /\ lastOps'[2] = "1")
            => /\ lastOps'[1] \in Routes
               /\ dbWrites' = dbWrites
               /\ lastOps'[3] = "200"
               /\ lastOps'[4] = "success"
      ]_vars

C22_Witness ==
    /\ side = "client"
    /\ doNotTrack.win = "1"
    /\ isInitialized
    /\ ~isTrackingAllowed
    /\ lastOps = <<"trackRegistration", "return">>
    /\ supabaseWrites = NoWrites(ClientTables)

\* the server half: a registration request with DNT: 1 after one without
C22_ServerWitness ==
    /\ side = "server"
    /\ lastOps = <<"registration", "1", "200", "success", "DNT respeitado">>
    /\ dbWrites["registrations"] = 1

\* C23: buttonEnabled is false before the mount, becomes true only in a run
\* of the poll callback while the time its interval reads (the player position
\* for local and youtube, the time since its start for vimeo and
\* google_drive) is at or above button_delay_seconds, and no step, the loop
\* back to 0, a pause or the teardown included, sets it back to false.
PollTime(t) == IF t.src \in {"local", "yt"} THEN pos ELSE now - t.startTime

C23_UnlockedMonotone ==
    [][/\ buttonEnabled => buttonEnabled'
       /\ (~buttonEnabled /\ buttonEnabled')
            => /\ lastOps'[1] = "pollTick"
               /\ phase = "mounted"
               /\ \E t \in timers : t.kind = "poll" /\ PollTime(t) >= t.delay
       /\ phase = "created" => ~buttonEnabled
      ]_vars

\* unlocked, and the player is back at 0 after the end of the media
C23_Witness ==
    /\ buttonEnabled
    /\ phase = "mounted"
    /\ lastOps = <<"onStateChange:ENDED", "clearProgress", "seek0", "play">>
    /\ pos = 0
    /\ \E t \in timers : t.kind = "poll" /\ t.src = "yt" /\ pos < t.delay

\* C24: for vimeo and google_drive the poll reads the wall-clock time since
\* the start instant of its interval, and that instant is never earlier than
\* the start of the playback: whenever the interval exists, the playback has
\* been started (the click on the vimeo play button of part_002, the
\* triggerGoogleDrivePlay of the 100 ms timeout or of the first interaction;
\* the vimeo iframe of part_003 starts by itself), and the instant is not in
\* the future.
ElapsedStarted ==
    CASE videoConfig.video_type = "google_drive" -> googleDriveClickedRef
      [] videoConfig.video_type = "vimeo" /\ variant = "hybrid" -> ~showPlayButton
      [] OTHER -> TRUE

C24_AccumulatorAfterStart ==
    \A t \in timers :
        (t.kind = "poll" /\ t.src = "elapsed")
            => (ElapsedStarted /\ t.startTime <= now)

\* C25: resume on reload.  When the setup of a backend with a position starts
\* the playback (setupLocalVideo calls play, createYouTubePlayer creates the
\* player on its element), the position it starts from is the time of the
\* record stored for the configured identity if that record parses to a
\* number above 0, and 0 if there is no record, the text does not parse or
\* the storage cannot be read.
StoredTime(id) ==
    LET text == storage[StoreKey(id)]
    IN  IF ~GetItemThrows(storageMode) /\ text.k = "obj" /\ text.time[1] = "num" /\ text.time[2] > 0
        THEN text.time[2]
        ELSE 0

StartsPlayback ==
    /\ lastOps' # lastOps
    /\ \/ \E i \in 1..(Len(lastOps') - 1) :
             lastOps'[i] = "setupLocalVideo" /\ lastOps'[i + 1] = "play"
       \/ playerRef # "stub" /\ playerRef' = "stub"

C25_YouTubeWitness ==
    /\ videoConfig.video_type = "youtube"
    /\ playerRef = "stub"
    /\ storage[StoreKey(currentVideoIdRef)] = Stringify(Num(2), 0)
    /\ pos = 2

C25_CorruptWitness ==
    /\ IsLocal
    /\ lastOps[Len(lastOps)] = "play"
    /\ storage[StoreKey(currentVideoIdRef)] = GarbageText
    /\ pos = 0

\* C26: after the teardown no timer the component created is pending: the
\* step of the unmount leaves no poll interval, no save interval, no HUD
\* timeout, no 100 ms Google Drive play trigger and no 1 s autoplay check.
C26_NoTimerAfterTeardown ==
    [][(lastOps' # lastOps /\ lastOps'[1] = "unmount")
          => (timers' = {} /\ ~gdTimeout' /\ ~autoplayCheck')]_vars

\* the part of it that holds: the intervals and the HUD timeout the refs
\* hold are cleared
C26_RefsCleared ==
    [][(lastOps' # lastOps /\ lastOps'[1] = "unmount")
          => \A t \in timers' :
                t.id \notin {progressIntervalRef, saveProgressIntervalRef,
                             hudOverlayTimeoutRef}]_vars

\* a HUD timeout of an earlier playback-started event outlives the teardown
C26_LeakedHudTimeout ==
    /\ phase = "unmounted"
    /\ lastOps[1] = "unmount"
    /\ \E t \in timers : t.kind = "hud"

\* C27: while the component is mounted at most one unlock poll interval and at
\* most one progress save interval are live, however many playback-started
\* events were handled.
Live(kind) == {t \in timers : t.kind = kind}

C27_OneIntervalEach ==
    phase = "mounted" => (Cardinality(Live("poll")) <= 1 /\ Cardinality(Live("save")) <= 1)

\* a second playback-started event has restarted the save interval
C27_Witness ==
    /\ phase = "mounted"
    /\ startedEvents = 2
    /\ Cardinality(Live("save")) = 1
    /\ Cardinality(Live("poll")) = 1
    /\ lastOps[Len(lastOps)] = "startSaving"

\* C28: for local and youtube the poll compares the position of the player,
\* not the time played in this session: once the tracking is armed and the
\* player can be read, a position at or above button_delay_seconds makes the
\* next poll tick fire the unlock, however little time has passed since the
\* mount.
PositionPolls == {t \in timers : t.kind = "poll" /\ t.src \in {"local", "yt"}}

PlayerReadable(t) == IF t.src = "local" THEN localVideoRef ELSE playerRef = "ready"

ElapsedBackend(cfg) == cfg.video_type \in {"vimeo", "google_drive"}

C29_NoRecordForElapsed ==
    [][ElapsedBackend(videoConfig')
          => (storage' = storage /\ Live("save")' = {} /\ saveProgressIntervalRef' = 0)]_vars

\* the page is left after the unlock of a vimeo or google_drive video whose
\* id has a stored record, and the record is the one that was there
C29_Witness ==
    /\ ElapsedBackend(videoConfig)
    /\ buttonEnabled
    /\ lastOps[1] \in LeaveHandlers
    /\ currentVideoIdRef = "a"
    /\ storage = SavedStorage

\* C30: a teardown that comes while the muted play() promise of the local
\* video or the 1 s autoplay check of the YouTube player is pending: when the
\* attempt then fails, no document listener is registered; after the unmount
\* no step adds a listener.
C30_NoArmingAfterTeardown ==
    [][phase = "unmounted" => (docListeners' \subseteq docListeners)]_vars

\* the rejected play() promise, or the autoplay check that finds the player
\* not playing, has registered the four listeners on the document of a
\* component that is gone
C30_ArmedByLateFailure ==
    /\ phase = "unmounted"
    /\ lastOps[Len(lastOps)] = "setupDocumentClickListener"
    /\ docListeners = DocTypes

\* C31: a storage that throws on every write does not keep the tracking from
\* being armed: a playback-started handler (the play event of the local
\* video, the PLAYING state of the YouTube player) leaves the tracking latch
\* set, and the first of them creates the poll interval.
StartedHandlers == {"handleLocalVideoPlay", "onStateChange:PLAYING"}

C31_StorageNeverBlocksArming ==
    [][(lastOps' # lastOps /\ lastOps'[1] \in StartedHandlers)
          => (trackingStartedRef' /\ (~trackingStartedRef => Live("poll")' # {}))]_vars

\* the part of it that holds: with a storage whose localStorage writes fail
\* for lack of space, the handler arms the tracking
C31_QuotaStillArms ==
    [][(lastOps' # lastOps /\ lastOps'[1] \in StartedHandlers /\ storageMode = "quota")
          => (trackingStartedRef' /\ (~trackingStartedRef => Live("poll")' # {}))]_vars

\* the handler has thrown at sessionStorage.setItem and nothing is armed
C31_ThrownBeforeArming ==
    /\ lastOps = <<"onStateChange:PLAYING", "throw:sessionStorage">>
    /\ ~trackingStartedRef
    /\ timers = {}
    /\ playState = "playing"

\* ------------------------------------------------------------ volume control
\* src/unnamed/part_002, the volume buttons of the vimeo player
VOLUME_STEP == 20
VOLUME_MAX == 100

\* document.getElementById('vimeo-player') finds the iframe with its window:
\* the element is rendered for a vimeo configuration while mounted
VimeoIframe == phase = "mounted" /\ videoConfig.video_type = "vimeo"

volumeFrame ==
    <<ambFixedButVolume, storage, phase, fetchPending, videoConfig, playerRef,
      localVideoRef, currentVideoIdRef, ytScript, playState, pos, events,
      startedEvents, lstVars, gdListeners, hasTriedAutoplayRef,
      googleDriveClickedRef, playPromise, autoplayCheck, gdTimeout, triggerCalls,
      showPlayButton, trackVars>>

\* setVimeoVolume(newVolume), called by name
setVimeoVolume(name, newVolume) ==
    /\ phase \in {"mounted", "unmounted"}
    /\ variant = "hybrid"
    /\ IF VimeoIframe
       THEN /\ volume' = newVolume
            /\ lastOps' = <<name, "setVimeoVolume", "postMessage:setVolume", "setVolume">>
       ELSE /\ volume' = volume
            /\ lastOps' = <<name, "setVimeoVolume">>
    /\ UNCHANGED volumeFrame

VolumeUp_Unclamped(v) == v + VOLUME_STEP

\* Math.min(100, volume + 20)
VolumeUp(v) == Min(VOLUME_MAX, v + VOLUME_STEP)

\* Math.max(0, volume - 20)
VolumeDown(v) == IF v - VOLUME_STEP > 0 THEN v - VOLUME_STEP ELSE 0

increaseVolume == setVimeoVolume("increaseVolume", VolumeUp(volume))

decreaseVolume == setVimeoVolume("decreaseVolume", VolumeDown(volume))

VimeoResponses == {r \in AmbResponses : loadVideoConfig(r).video_type = "vimeo"}

VolumeInit ==
    /\ storage = EmptyStorage
    /\ storageMode \in {"ok", "disabled"}
    /\ ytScript = "absent"
    /\ variant = "hybrid"
    /\ InitComponent
    /\ AnalyticsIdle

VolumeNext ==
    \/ Mount
    \/ \E resp \in VimeoResponses : AmbFetchSettle(resp, "absent", TRUE)
    \/ startVimeoManually
    \/ increaseVolume
    \/ decreaseVolume
    \/ TimeAdvance
    \/ \E t \in timers : PollTick(t)
    \/ \E t \in timers : HudFire(t)
    \/ AmbUnmount
    \/ BeforeUnload

VolumeSpec == VolumeInit /\ [][VolumeNext]_vars

\* C32: the volume state stays within 0..100 whatever sequence of
\* increaseVolume and decreaseVolume is called, it is a multiple of the step
\* 20, and a call that finds no vimeo iframe leaves the volume as it was and
\* posts no message.
VolumeCalls == {"increaseVolume", "decreaseVolume"}

C32_VolumeInRange ==
    /\ volume \in 0..VOLUME_MAX
    /\ volume % VOLUME_STEP = 0
    /\ (lastOps[1] \in VolumeCalls /\ ~VimeoIframe) => lastOps = <<lastOps[1], "setVimeoVolume">>

\* a call without the iframe changes nothing and sends nothing
C32_AbsentIsNoOp ==
    [][(lastOps' # lastOps /\ lastOps'[1] \in VolumeCalls /\ ~VimeoIframe)
          => (volume' = volume /\ Len(lastOps') = 2)]_vars

\* decreaseVolume has taken the volume down to 0
C32_Witness ==
    /\ volume = 0
    /\ lastOps = <<"decreaseVolume", "setVimeoVolume", "postMessage:setVolume", "setVolume">>
    /\ VimeoIframe

\* increaseVolume at 100 has posted 100 again
C32_TopWitness ==
    /\ volume = 100
    /\ lastOps[1] = "increaseVolume"
    /\ Len(lastOps) = 4

\* a call after the unmount, at a volume below 100
C32_AbsentWitness ==
    /\ phase = "unmounted"
    /\ lastOps = <<"increaseVolume", "setVimeoVolume">>
    /\ volume = 60

\* ------------------------------------------------------------ admin session
\* src/unnamed/part_000, adminService.login / getSession / isAuthenticated /
\* logout.  The clock of this specification counts days.
SESSION_DAYS == 7
MaxDays == 9

\* everything the page and the tracker have, but the clock and lastOps
pageVars == <<storeVars, storeObs, phase, fetchPending, videoConfig, buttonEnabled,
              showHudOverlay, showPlayOverlay, playerRef, localVideoRef, trackVars,
              currentVideoIdRef, ytScript, playState, pos, events, loadCalls,
              enableCalls, playStartCalls, startedEvents, qualTick, lateEffect,
              clickEnabled, ambientVars, volume, analyticsVars>>

otherThanSession == <<configVars, visitorVars, deleteVars, serverVideoVars>>

\* the admins table: one row
Admins == {[username |-> "admin", id |-> 1, password |-> "pw"]}
Credentials == [username : {"admin", "ghost"}, password : {"pw", "bad"}]

\* .from('admins').select('*').eq('username', username).single()
AdminRow(username) == {a \in Admins : a.username = username}

\* bcryptjs.compare(password, admin.password_hash)
ValidPassword(password, admin) == password = admin.password

\* JSON.stringify(session)
SessionText(admin, expiresAt) ==
    [k |-> "obj", username |-> admin.username, id |-> admin.id, expiresAt |-> expiresAt]

\* login, up to its first await
AdminLogin(cred) ==
    /\ loginPending = NoLogin
    /\ loginPending' = cred
    /\ lastOps' = <<"login", "select:admins">>
    /\ UNCHANGED <<pageVars, now, adminSession, otherThanSession>>

\* the rest of login; answer "serverError": a request throws
AdminLoginSettle(answer) ==
    /\ loginPending # NoLogin
    /\ loginPending' = NoLogin
    /\ LET rows == AdminRow(loginPending.username)
       IN  IF answer = "serverError"
           THEN /\ lastOps' = <<"login", "fail", "Erro no servidor">>
                /\ UNCHANGED adminSession
           ELSE IF rows = {}
           THEN /\ lastOps' = <<"login", "fail", "Credenciais invalidas">>
                /\ UNCHANGED adminSession
           ELSE LET admin == CHOOSE a \in rows : TRUE
                IN  IF ~ValidPassword(loginPending.password, admin)
                    THEN /\ lastOps' = <<"login", "fail", "Credenciais invalidas">>
                         /\ UNCHANGED adminSession
                    ELSE IF SetItemThrows(storageMode)
                    THEN /\ lastOps' = <<"login", "fail", "Erro no servidor">>
                         /\ UNCHANGED adminSession
                    ELSE /\ adminSession' = SessionText(admin, now + SESSION_DAYS)
                         /\ lastOps' = <<"login", "success">>
    /\ UNCHANGED <<pageVars, now, otherThanSession>>

SessionExpired_AtDeadline(clock, session) == clock >= session.expiresAt

\* Date.now() > session.expiresAt
SessionExpired(clock, session) == clock > session.expiresAt

\* getSession, and isAuthenticated which calls it
GetSession(name) ==
    /\ IF GetItemThrows(storageMode) \/ adminSession.k = "absent"
       THEN /\ lastOps' = <<name, "null">>
            /\ UNCHANGED adminSession
       ELSE IF SessionExpired(now, adminSession)
       THEN /\ adminSession' = IF RemoveItemThrows(storageMode) THEN adminSession
                               ELSE NoSession
            /\ lastOps' = <<name, "null", "removeItem">>
       ELSE /\ lastOps' = <<name, "session">>
            /\ UNCHANGED adminSession
    /\ UNCHANGED <<pageVars, now, loginPending, otherThanSession>>

\* logout: localStorage.removeItem(SESSION_KEY), outside any try
AdminLogout ==
    /\ IF RemoveItemThrows(storageMode)
       THEN /\ lastOps' = <<"logout", "throw:removeItem">>
            /\ UNCHANGED adminSession
       ELSE /\ lastOps' = <<"logout", "removeItem">>
            /\ adminSession' = NoSession
    /\ UNCHANGED <<pageVars, now, loginPending, otherThanSession>>

\* days pass
AdminClock(d) ==
    /\ now + d <= MaxDays
    /\ now' = now + d
    /\ UNCHANGED <<pageVars, lastOps, serviceVars>>

SessionInit ==
    /\ storage = EmptyStorage
    /\ storageMode \in Modes
    /\ ytScript = "absent"
    /\ variant = "click"
    /\ InitComponent
    /\ AnalyticsIdle

SessionNext ==
    \/ \E cred \in Credentials : AdminLogin(cred)
    \/ \E answer \in {"ok", "serverError"} : AdminLoginSettle(answer)
    \/ \E name \in {"getSession", "isAuthenticated"} : GetSession(name)
    \/ AdminLogout
    \/ \E d \in {1, SESSION_DAYS} : AdminClock(d)

SessionSpec == SessionInit /\ [][SessionNext]_vars

SessionTypeOK ==
    /\ now \in 0..MaxDays
    /\ loginPending \in Credentials \cup {NoLogin}
    /\ adminSession \in {NoSession}
          \cup {SessionText(a, e) : a \in Admins, e \in 0..(MaxDays + SESSION_DAYS)}

\* C33: isAuthenticated() and getSession() answer with a session exactly when
\* one is stored and the clock is not past its expiresAt; a stored session is
\* the one a successful login wrote, with expiresAt seven days after that
\* login, and it goes away only by logout or by a read after its expiry,
\* which removes it and answers null; a login that fails (unknown user, wrong
\* password, server error) answers success: false and leaves the stored
\* session as it was.
SessionReads == {"getSession", "isAuthenticated"}

SessionRead == lastOps'[1] \in SessionReads /\ now' = now /\ loginPending' = loginPending

LoginAnswer == loginPending # NoLogin /\ loginPending' = NoLogin

GoodCredentials(cred) ==
    \E a \in Admins : a.username = cred.username /\ a.password = cred.password

C33_SessionValidity ==
    [][/\ SessionRead =>
            /\ lastOps'[2] = "session"
                  <=> (adminSession.k = "obj" /\ now <= adminSession.expiresAt)
            /\ (adminSession.k = "obj" /\ now > adminSession.expiresAt)
                  => (adminSession' = NoSession /\ lastOps'[2] = "null")
       /\ LoginAnswer =>
            /\ lastOps'[2] \in {"success", "fail"}
            /\ ~GoodCredentials(loginPending) => lastOps'[2] = "fail"
            /\ lastOps'[2] = "fail" => adminSession' = adminSession
            /\ lastOps'[2] = "success"
                  => (adminSession'.k = "obj" /\ adminSession'.expiresAt = now + SESSION_DAYS)
       /\ adminSession' # adminSession =>
            \/ LoginAnswer /\ lastOps'[2] = "success"
            \/ adminSession' = NoSession /\ lastOps'[1] = "logout"
            \/ adminSession' = NoSession /\ SessionRead /\ now > adminSession.expiresAt
      ]_vars

\* isAuthenticated() is true on the last day of the session
C33_Witness ==
    /\ lastOps = <<"isAuthenticated", "session">>
    /\ adminSession.k = "obj"
    /\ now = adminSession.expiresAt

\* a read after the expiry has removed the session
C33_ExpiredWitness ==
    /\ lastOps = <<"getSession", "null", "removeItem">>
    /\ adminSession = NoSession
    /\ now > SESSION_DAYS

\* a login with a wrong password has failed and the session of an earlier
\* login is still stored
C33_FailedLoginWitness ==
    /\ lastOps = <<"login", "fail", "Credenciais invalidas">>
    /\ adminSession.k = "obj"

\* C34: before init() has finished (registerVisitor awaited, isInitialized
\* set) the tracker inserts no events, page_views or registrations row: a
\* trackEvent, trackPageView or trackRegistration call made until then
\* returns without a statement.
VisitorChildTables == {"events", "page_views", "registrations"}

C34_NothingBeforeRegistered ==
    [][(side = "client" /\ ~isInitialized)
          => \A t \in VisitorChildTables : supabaseWrites'[t] = supabaseWrites[t]]_vars

\* trackEvent was called while init() awaits its requests, with tracking
\* allowed, and has returned
C34_Witness ==
    /\ side = "client"
    /\ initRunning
    /\ isTrackingAllowed
    /\ ~isInitialized
    /\ lastOps = <<"trackEvent", "return">>
    /\ \A t \in VisitorChildTables : supabaseWrites[t] = 0

\* ------------------------------------------------- visitor registration
\* src/unnamed/part_001 (init, registerVisitor) and the route
\* POST /api/analytics/visitor of src/unnamed/part_005. An init() run is one
\* call of init() that passed its isInitialized test: of this tab, whose
\* tracker object holds isInitialized, or of another tab on the same
\* visitorId of localStorage, whose tracker object is its own.
frontVars == <<storeVars, storeObs, phase, fetchPending, videoConfig, buttonEnabled,
               showHudOverlay, showPlayOverlay, playerRef, localVideoRef, trackVars,
               currentVideoIdRef, ytScript, playState, pos, events, loadCalls,
               enableCalls, playStartCalls, startedEvents, qualTick, lateEffect,
               clickEnabled, ambientVars, volume, now>>

otherThanVisitor == <<sessionVars, configVars, deleteVars, serverVideoVars>>

registerFrame == <<frontVars, side, doNotTrack, initRunning, supabaseWrites,
                   dbWrites, otherThanVisitor>>

Tabs == {"this", "other"}
RunOf(tab, pc, existing) == [tab |-> tab, pc |-> pc, existing |-> existing]

\* init() up to the await of getLocationData: if (this.isInitialized) return;
\* isTrackingAllowed = true
InitStart(r, tab) ==
    /\ side = "client"
    /\ registerRuns[r].pc = "idle"
    /\ IF tab = "this" /\ isInitialized
       THEN /\ lastOps' = <<"init", "return">>
            /\ UNCHANGED <<visitorVars, isTrackingAllowed>>
       ELSE /\ registerRuns' = [registerRuns EXCEPT ![r] = RunOf(tab, "started", NoRow)]
            /\ isTrackingAllowed' = IF tab = "this" THEN TRUE ELSE isTrackingAllowed
            /\ lastOps' = <<"init", "getLocationData">>
            /\ UNCHANGED visitorsRow
    /\ UNCHANGED <<registerFrame, isInitialized>>

\* registerVisitor: select('*').eq('visitor_id', ...).single()
RegisterSelect(r) ==
    /\ side = "client"
    /\ registerRuns[r].pc = "started"
    /\ registerRuns' = [registerRuns EXCEPT ![r].pc = "selected",
                                            ![r].existing = visitorsRow]
    /\ lastOps' = <<"registerVisitor", "select">>
    /\ UNCHANGED <<registerFrame, isInitialized, isTrackingAllowed, visitorsRow>>

\* what the update of registerVisitor writes: (existing.total_visits || 0) + 1
UpdatedVisits(row, existing) == existing.total_visits + 1

\* registerVisitor after the select: the update when a row was read, the
\* insert with total_visits: 1 otherwise (visitor_id is UNIQUE: the insert of
\* a second row is refused and its error is not looked at); a request that
\* fails (answer "error") changes nothing and nothing looks at its error
\* either. Then the
\* rest of init() up to isInitialized = true.
RegisterWrite(r, answer) ==
    /\ side = "client"
    /\ registerRuns[r].pc = "selected"
    /\ LET existing == registerRuns[r].existing
       IN  /\ visitorsRow' =
                 IF answer = "error" THEN visitorsRow
                 ELSE IF existing.exists
                 THEN IF visitorsRow.exists
                      THEN [visitorsRow EXCEPT
                               !.total_visits = UpdatedVisits(visitorsRow, existing)]
                      ELSE visitorsRow
                 ELSE IF visitorsRow.exists
                      THEN visitorsRow
                      ELSE [exists |-> TRUE, total_visits |-> 1]
           /\ lastOps' = <<"registerVisitor",
                           IF existing.exists THEN "update" ELSE "insert", answer,
                           "collectAndSendSignals", "setupEventListeners">>
    /\ registerRuns' = [registerRuns EXCEPT
                            ![r].pc = IF answer = "ok" THEN "done" ELSE "failed"]
    /\ isInitialized' = IF registerRuns[r].tab = "this" THEN TRUE ELSE isInitialized
    /\ UNCHANGED <<registerFrame, isTrackingAllowed>>

\* POST /api/analytics/visitor without the DNT header: the SELECT and the
\* UPDATE total_visits = total_visits + 1 or the INSERT run in one
\* synchronous handler
PostVisitor(r) ==
    /\ side = "server"
    /\ registerRuns[r].pc = "idle"
    /\ visitorsRow' = IF visitorsRow.exists
                      THEN [visitorsRow EXCEPT !.total_visits = @ + 1]
                      ELSE [exists |-> TRUE, total_visits |-> 1]
    /\ registerRuns' = [registerRuns EXCEPT ![r] = RunOf("other", "done", visitorsRow)]
    /\ lastOps' = <<"visitor", "200", "success">>
    /\ UNCHANGED <<registerFrame, isInitialized, isTrackingAllowed>>

RegistrationInit ==
    /\ storage = EmptyStorage
    /\ storageMode = "ok"
    /\ ytScript = "absent"
    /\ variant = "click"
    /\ InitComponent
    /\ side \in {"client", "server"}
    /\ doNotTrack = NoDnt
    /\ isInitialized = FALSE
    /\ isTrackingAllowed = FALSE
    /\ initRunning = FALSE
    /\ supabaseWrites = NoWrites(ClientTables)
    /\ dbWrites = NoWrites(ServerTables)
    /\ ServiceIdle

RegistrationNext ==
    \/ \E r \in Runs, tab \in Tabs : InitStart(r, tab)
    \/ \E r \in Runs : RegisterSelect(r)
    \/ \E r \in Runs, answer \in {"ok", "error"} : RegisterWrite(r, answer)
    \/ \E r \in Runs : PostVisitor(r)

RegistrationSpec == RegistrationInit /\ [][RegistrationNext]_vars

RegistrationTypeOK ==
    /\ visitorsRow \in [exists : BOOLEAN, total_visits : 0..MaxRuns]
    /\ \A r \in Runs : registerRuns[r].pc \in {"idle", "started", "selected", "done", "failed"}

\* the init() runs that have finished, and those of them whose write to
\* visitors was answered with a failure of the request
CompletedRuns == {r \in Runs : registerRuns[r].pc \in {"done", "failed"}}
FailedRuns == {r \in Runs : registerRuns[r].pc = "failed"}
InFlightRuns == {r \in Runs : registerRuns[r].pc \in {"started", "selected"}}

\* C35: once n init() runs for the visitor id have completed and none is in
\* flight, exactly one visitors row exists and its total_visits equals n,
\* also when the runs overlapped (tabs opened concurrently, init() called
\* again before an earlier call finished).
C35_VisitsCountedExactly ==
    (InFlightRuns = {} /\ CompletedRuns # {} /\ FailedRuns = {})
        => (visitorsRow.exists /\ visitorsRow.total_visits = Cardinality(CompletedRuns))

\* the route of the server counts exactly: its handler is one synchronous step
C35_ServerCountsExactly ==
    side = "server"
        => visitorsRow.total_visits = Cardinality(CompletedRuns)

\* two runs of the tracker overlapped, both completed with requests that
\* succeeded, and the row counts one visit
C35_LostVisit ==
    /\ side = "client"
    /\ InFlightRuns = {}
    /\ Cardinality(CompletedRuns) = 2
    /\ FailedRuns = {}
    /\ visitorsRow.exists
    /\ visitorsRow.total_visits = 1
    /\ \A r \in CompletedRuns : registerRuns[r].tab = "this"

\* the same with the runs in two tabs
C35_LostVisitAcrossTabs ==
    /\ side = "client"
    /\ InFlightRuns = {}
    /\ Cardinality(CompletedRuns) = 2
    /\ FailedRuns = {}
    /\ visitorsRow.exists
    /\ visitorsRow.total_visits < 2
    /\ \E r \in CompletedRuns : registerRuns[r].tab = "other"

\* runs that did not overlap count exactly: a run that read the row as it
\* is when it writes adds one visit
C35_SequentialRunsCount ==
    [][\A r \in Runs :
          (registerRuns[r].pc = "selected" /\ registerRuns'[r].pc = "done"
           /\ registerRuns[r].existing = visitorsRow)
              => visitorsRow'.total_visits = visitorsRow.total_visits + 1]_vars

\* ------------------------------------------------- admin video configuration
\* src/unnamed/part_000 (getVideoConfig, saveVideoConfig). videoConfigRows is
\* the table in the order of created_at; by is the call that inserted the row.
otherThanConfig == <<sessionVars, visitorVars, deleteVars, serverVideoVars>>

configFrame == <<frontVars, analyticsVars, otherThanConfig>>

ActiveRows(rows) == {i \in 1..Len(rows) : rows[i].is_active}

\* update({ is_active: false }).eq('is_active', true)
Deactivated(rows) == [i \in 1..Len(rows) |-> [rows[i] EXCEPT !.is_active = FALSE]]

\* the first request of saveVideoConfig; what it answers is not looked at
SaveDeactivate(r, answer) ==
    /\ saveRuns[r].pc = "idle"
    /\ videoConfigRows' = IF answer = "ok" THEN Deactivated(videoConfigRows)
                          ELSE videoConfigRows
    /\ saveRuns' = [saveRuns EXCEPT ![r] = [pc |-> "updated",
                                            deactivated |-> answer = "ok"]]
    /\ lastOps' = <<"saveVideoConfig", "update", answer>>
    /\ UNCHANGED configFrame

\* the second request: insert({..., is_active: true}).select().single();
\* if (error) throw error; return { success: true, video: data }, and the
\* catch returns { success: false }
SaveInsert(r, answer) ==
    /\ saveRuns[r].pc = "updated"
    /\ IF answer = "ok"
       THEN /\ videoConfigRows' = Append(videoConfigRows, [by |-> r, is_active |-> TRUE])
            /\ saveRuns' = [saveRuns EXCEPT ![r].pc = "success"]
            /\ lastOps' = <<"saveVideoConfig", "insert", "success: true">>
       ELSE /\ UNCHANGED videoConfigRows
            /\ saveRuns' = [saveRuns EXCEPT ![r].pc = "failure"]
            /\ lastOps' = <<"saveVideoConfig", "insert", "success: false">>
    /\ UNCHANGED configFrame

\* .eq('is_active', true).order('created_at', { ascending: false }).limit(1)
NewestActive(rows) ==
    IF ActiveRows(rows) = {} THEN 0
    ELSE rows[CHOOSE i \in ActiveRows(rows) : \A j \in ActiveRows(rows) : j <= i].by

RowTag(by) == IF by = 0 THEN "video: null" ELSE "video: row"

\* getVideoConfig: a failed request answers { video: null }
getVideoConfig(answer) ==
    /\ lastOps' = <<"getVideoConfig", answer,
                    RowTag(IF answer = "ok" THEN NewestActive(videoConfigRows) ELSE 0)>>
    /\ UNCHANGED <<configFrame, configVars>>

ConfigInit ==
    /\ storage = EmptyStorage
    /\ storageMode = "ok"
    /\ ytScript = "absent"
    /\ variant = "click"
    /\ InitComponent
    /\ AnalyticsIdle

ConfigNext ==
    \/ \E r \in Runs, answer \in {"ok", "error"} : SaveDeactivate(r, answer)
    \/ \E r \in Runs, answer \in {"ok", "error"} : SaveInsert(r, answer)
    \/ \E answer \in {"ok", "error"} : getVideoConfig(answer)

ConfigSpec == ConfigInit /\ [][ConfigNext]_vars

ConfigTypeOK ==
    /\ Len(videoConfigRows) <= MaxRuns
    /\ \A i \in 1..Len(videoConfigRows) :
          videoConfigRows[i] \in [by : Runs, is_active : BOOLEAN]
    /\ \A r \in Runs :
          saveRuns[r].pc \in {"idle", "updated", "success", "failure"}

\* C36: after any sequence of saveVideoConfig calls, interleaved ones
\* included, at most one video_config row has is_active = true, and when a
\* call returns success: true the active row is the row that call inserted.
C36_SingleActiveConfig ==
    /\ Cardinality(ActiveRows(videoConfigRows)) <= 1
    /\ \A r \in Runs :
          (saveRuns[r].pc = "success" /\ lastOps = <<"saveVideoConfig", "insert", "success: true">>
           /\ videoConfigRows[Len(videoConfigRows)].by = r)
              => \A i \in ActiveRows(videoConfigRows) : videoConfigRows[i].by = r

\* what holds: at the return of success: true the row getVideoConfig would
\* read, the newest active one, is the row that call inserted
C36_NewestIsTheSaved ==
    [][\A r \in Runs :
          (saveRuns[r].pc = "updated" /\ saveRuns'[r].pc = "success")
              => NewestActive(videoConfigRows') = r]_vars

\* calls that do not interleave and whose requests succeed leave one active row
C36_AloneLeavesOne ==
    [][\A r \in Runs :
          (saveRuns[r].pc = "updated" /\ saveRuns'[r].pc = "success"
           /\ ActiveRows(videoConfigRows) = {})
              => Cardinality(ActiveRows(videoConfigRows')) = 1]_vars

\* two calls interleaved, every request succeeded, two rows are active
C36_TwoActiveInterleaved ==
    /\ Cardinality(ActiveRows(videoConfigRows)) = 2
    /\ \A r \in Runs : saveRuns[r].pc \in {"idle", "success"}
    /\ \A r \in Runs : saveRuns[r].pc = "success" => saveRuns[r].deactivated

\* one call after the other, the update of the second failed, two rows are
\* active and the second call returned success: true
C36_TwoActiveAfterFailedUpdate ==
    /\ Cardinality(ActiveRows(videoConfigRows)) = 2
    /\ Len(videoConfigRows) = 2
    /\ saveRuns[videoConfigRows[2].by].pc = "success"
    /\ ~saveRuns[videoConfigRows[2].by].deactivated

\* ------------------------------------------------- deleteMyData
\* src/src/utils/optOut.ts (deleteMyData) and src/unnamed/part_001
\* (deleteMyData of the tracker). visitorData[t] is the number of rows of
\* table t with this visitor_id.
otherThanDelete == <<sessionVars, configVars, visitorVars, serverVideoVars>>

deleteFrame == <<frontVars, analyticsVars, otherThanDelete>>

\* the six awaited deletes, in the order of the code
DeleteOrder == <<"visitor_signals", "inferred_demographics", "page_views", "events",
                 "registrations", "visitors">>
Returned == Len(DeleteOrder) + 1

ChildTables == ClientTables \ {"visitors"}

\* delete().eq('visitor_id', visitorId) that the database ran; the rows of
\* the other tables reference visitors(visitor_id) ON DELETE CASCADE
RowsDeleted(data, table) ==
    IF table = "visitors" THEN NoWrites(ClientTables)
    ELSE [data EXCEPT ![table] = 0]

Callers == {"optOut", "tracker"}

\* deleteMyData up to its first await. optOut reads localStorage and returns
\* true when no visitorId is stored; the tracker uses this.visitorId, which
\* its constructor stored
DeleteStart(who) ==
    /\ deleteRun.step \in {0, Returned}
    /\ who = "tracker" => (visitorIdStored \/ deleteRun.who = "tracker")
    /\ IF who = "optOut" /\ ~visitorIdStored
       THEN /\ deleteRun' = [who |-> who, step |-> Returned, failed |-> FALSE,
                             result |-> "success"]
            /\ lastOps' = <<who, "deleteMyData", "no visitorId", "true">>
       ELSE /\ deleteRun' = [who |-> who, step |-> 1, failed |-> FALSE,
                             result |-> "none"]
            /\ lastOps' = <<who, "deleteMyData", "delete", DeleteOrder[1]>>
    /\ UNCHANGED <<deleteFrame, visitorData, visitorIdStored>>

\* whether a request that answered { error } is remembered: the result of
\* the await is never looked at
DeleteFailed(failed, answer) == failed \/ answer = "error"

\* one awaited delete settles: "ok" the database ran it, "error" the promise
\* resolved with { error } and nothing was deleted, "throw" the await threw
\* and the catch returns false. After the sixth the function removes
\* visitorId from localStorage and returns true.
DeleteSettle(answer) ==
    /\ deleteRun.step \in 1..Len(DeleteOrder)
    /\ LET table == DeleteOrder[deleteRun.step]
           last == deleteRun.step = Len(DeleteOrder)
       IN  /\ visitorData' = IF answer = "ok" THEN RowsDeleted(visitorData, table)
                             ELSE visitorData
           /\ IF answer = "throw"
              THEN /\ deleteRun' = [deleteRun EXCEPT !.step = Returned,
                                                     !.failed = TRUE,
                                                     !.result = "failure"]
                   /\ lastOps' = <<deleteRun.who, table, answer, "catch", "false">>
                   /\ UNCHANGED visitorIdStored
              ELSE IF last
              THEN /\ deleteRun' = [deleteRun EXCEPT
                                       !.step = Returned,
                                       !.failed = DeleteFailed(@, answer),
                                       !.result = "success"]
                   /\ visitorIdStored' = FALSE
                   /\ lastOps' = <<deleteRun.who, table, answer, "removeItem", "true">>
              ELSE /\ deleteRun' = [deleteRun EXCEPT
                                       !.step = @ + 1,
                                       !.failed = DeleteFailed(@, answer)]
                   /\ lastOps' = <<deleteRun.who, table, answer, "delete",
                                   DeleteOrder[deleteRun.step + 1]>>
                   /\ UNCHANGED visitorIdStored
    /\ UNCHANGED deleteFrame

\* the rows a tracked visitor can have: child rows only with the visitors row
StoredData ==
    {d \in [ClientTables -> 0..1] : d["visitors"] = 1}

DeleteInit ==
    /\ storage = EmptyStorage
    /\ storageMode = "ok"
    /\ ytScript = "absent"
    /\ variant = "click"
    /\ InitComponent
    /\ side = "none"
    /\ doNotTrack = NoDnt
    /\ isInitialized = FALSE
    /\ isTrackingAllowed = FALSE
    /\ initRunning = FALSE
    /\ supabaseWrites = NoWrites(ClientTables)
    /\ dbWrites = NoWrites(ServerTables)
    /\ adminSession = NoSession
    /\ loginPending = NoLogin
    /\ videoConfigRows = <<>>
    /\ saveRuns = [r \in Runs |-> NoSave]
    /\ visitorsRow = NoRow
    /\ registerRuns = [r \in Runs |-> NoRun]
    /\ videoConfigFile = NoFile
    /\ serverVideoRows = <<>>
    /\ deleteRun = NoDelete
    /\ visitorIdStored \in BOOLEAN
    /\ visitorData \in (IF visitorIdStored THEN StoredData ELSE {NoWrites(ClientTables)})

DeleteNext ==
    \/ \E who \in Callers : DeleteStart(who)
    \/ \E answer \in {"ok", "error", "throw"} : DeleteSettle(answer)

DeleteSpec == DeleteInit /\ [][DeleteNext]_vars

DeleteTypeOK ==
    /\ visitorData \in [ClientTables -> 0..1]
    /\ visitorIdStored \in BOOLEAN
    /\ deleteRun.step \in 0..Returned
    /\ deleteRun.result \in {"none", "success", "failure"}

NoRowsRemain == \A t \in ClientTables : visitorData[t] = 0

\* C37: deleteMyData reports success (true, success: true) only when no row
\* with the visitor_id remains in any of the six tables, and when a delete
\* request failed it reports failure and visitorId stays in localStorage.
C37_SuccessMeansGone ==
    /\ deleteRun.result = "success" => NoRowsRemain
    /\ (deleteRun.step = Returned /\ deleteRun.failed)
          => (deleteRun.result = "failure" /\ visitorIdStored)

\* what holds: the await that throws reports failure and leaves localStorage
C37_ThrowKeepsId ==
    [][(Contains(lastOps', "throw") /\ lastOps' # lastOps)
          => (deleteRun'.result = "failure" /\ visitorIdStored' = visitorIdStored)]_vars

\* what holds: when the delete of visitors ran, the cascade removed the rows
\* that failed deletes of the other tables had left
C37_CascadeCovers ==
    (deleteRun.result = "success" /\ Len(lastOps) = 5 /\ lastOps[2] = "visitors"
     /\ lastOps[3] = "ok")
        => NoRowsRemain

\* the delete of visitors answered { error }: success is reported, visitorId
\* is removed and the rows are still there
C37_ReportedGoneButStored ==
    /\ deleteRun.result = "success"
    /\ ~visitorIdStored
    /\ visitorData["visitors"] = 1
    /\ \E t \in ChildTables : visitorData[t] = 1

\* ------------------------------------------------- video routes of the server
\* src/unnamed/part_005: data/videoConfig.json (videoConfigFile) and the
\* video_config table of the server (serverVideoRows, in the order of
\* created_at). by numbers the request that wrote the configuration; the
\* removed file keeps the number of the request that had written it.
otherThanServerVideo == <<sessionVars, configVars, visitorVars, deleteVars>>

serverVideoFrame == <<frontVars, analyticsVars, otherThanServerVideo>>

FileOf(by, type, videoPath) ==
    [k |-> "config", video_type |-> type, video_path |-> videoPath, by |-> by,
     is_active |-> TRUE]

\* getVideoConfigFromFile: null when the file does not exist
getVideoConfigFromFile(file) == file.k = "config"

MaxBy(rows) ==
    IF Len(rows) = 0 THEN 0
    ELSE rows[CHOOSE i \in 1..Len(rows) : \A j \in 1..Len(rows) : rows[j].by <= rows[i].by].by

\* the number of the next request that writes a configuration
NextBy ==
    1 + (IF videoConfigFile.by > MaxBy(serverVideoRows) THEN videoConfigFile.by
         ELSE MaxBy(serverVideoRows))

\* saveVideoConfigToFile: writeFileSync in a try, false on a failure, and
\* no caller reads what it returns
saveVideoConfigToFile(file, config, written) == IF written THEN config ELSE file

\* video_type || 'youtube'
TypeOrYoutube(type) == IF type = "" THEN "youtube" ELSE type

\* UPDATE video_config SET is_active = 0, then the INSERT of the active row;
\* db tells which statement throws into the inner catch
SavedRows(rows, by, db) ==
    CASE db = "ok" -> Append(Deactivated(rows), [by |-> by, is_active |-> TRUE])
      [] db = "insert throws" -> Deactivated(rows)
      [] OTHER -> rows

\* POST /api/admin/video
PostAdminVideo(hasUrl, type, written, db) ==
    /\ side = "server"
    /\ NextBy <= MaxRuns
    /\ IF ~hasUrl
       THEN /\ lastOps' = <<"POST /api/admin/video", "400">>
            /\ UNCHANGED serverVideoVars
       ELSE /\ videoConfigFile' =
                  saveVideoConfigToFile(videoConfigFile,
                                        FileOf(NextBy, TypeOrYoutube(type), ""), written)
            /\ serverVideoRows' = SavedRows(serverVideoRows, NextBy, db)
            /\ lastOps' = <<"POST /api/admin/video", "200", "success">>
    /\ UNCHANGED serverVideoFrame

\* POST /api/admin/video/upload: the file configuration only
PostAdminVideoUpload(hasFile, written) ==
    /\ side = "server"
    /\ NextBy <= MaxRuns
    /\ IF ~hasFile
       THEN /\ lastOps' = <<"POST /api/admin/video/upload", "400">>
            /\ UNCHANGED serverVideoVars
       ELSE /\ videoConfigFile' =
                  saveVideoConfigToFile(videoConfigFile,
                                        FileOf(NextBy, "local", "/videos/file"), written)
            /\ lastOps' = <<"POST /api/admin/video/upload", "200", "success">>
            /\ UNCHANGED serverVideoRows
    /\ UNCHANGED serverVideoFrame

\* what DELETE /api/admin/video/local does to the table: no statement
DeleteLocal(rows) == rows

\* DELETE /api/admin/video/local: unlinks the video file and
\* videoConfig.json; an unlink that throws answers 500
DeleteAdminVideoLocal(unlinked) ==
    /\ side = "server"
    /\ IF unlinked
       THEN /\ videoConfigFile' = [NoFile EXCEPT !.by = videoConfigFile.by]
            /\ serverVideoRows' = DeleteLocal(serverVideoRows)
            /\ lastOps' = <<"DELETE /api/admin/video/local", "200", "success">>
       ELSE /\ lastOps' = <<"DELETE /api/admin/video/local", "500">>
            /\ UNCHANGED serverVideoVars
    /\ UNCHANGED serverVideoFrame

\* what GET /api/video/current answers: the file configuration when it
\* exists and is_active, else the newest active row, else null; as the
\* number of the request that wrote it, 0 for video: null
CurrentVideo(file, rows) ==
    IF getVideoConfigFromFile(file) /\ file.is_active THEN file.by
    ELSE NewestActive(rows)

CurrentSource(file, rows) ==
    IF getVideoConfigFromFile(file) /\ file.is_active THEN "video: file"
    ELSE RowTag(NewestActive(rows))

\* GET /api/video/current
GetVideoCurrent ==
    /\ side = "server"
    /\ lastOps' = <<"GET /api/video/current", "200",
                    CurrentSource(videoConfigFile, serverVideoRows)>>
    /\ UNCHANGED <<serverVideoFrame, serverVideoVars>>

ServerVideoInit ==
    /\ storage = EmptyStorage
    /\ storageMode = "ok"
    /\ ytScript = "absent"
    /\ variant = "click"
    /\ InitComponent
    /\ side = "server"
    /\ doNotTrack = NoDnt
    /\ isInitialized = FALSE
    /\ isTrackingAllowed = FALSE
    /\ initRunning = FALSE
    /\ supabaseWrites = NoWrites(ClientTables)
    /\ dbWrites = NoWrites(ServerTables)
    /\ ServiceIdle

ServerVideoNext ==
    \/ \E hasUrl \in BOOLEAN, type \in {"", "youtube", "vimeo"}, written \in BOOLEAN,
          db \in {"ok", "update throws", "insert throws"} :
          PostAdminVideo(hasUrl, type, written, db)
    \/ \E hasFile \in BOOLEAN, written \in BOOLEAN : PostAdminVideoUpload(hasFile, written)
    \/ \E unlinked \in BOOLEAN : DeleteAdminVideoLocal(unlinked)
    \/ GetVideoCurrent

ServerVideoSpec == ServerVideoInit /\ [][ServerVideoNext]_vars

ServerVideoTypeOK ==
    /\ videoConfigFile.k \in {"absent", "config"}
    /\ videoConfigFile.by \in 0..MaxRuns
    /\ Len(serverVideoRows) <= MaxRuns
    /\ \A i \in 1..Len(serverVideoRows) :
          serverVideoRows[i] \in [by : 1..MaxRuns, is_active : BOOLEAN]

SavedOrUploaded ==
    /\ lastOps' # lastOps
    /\ lastOps' \in {<<"POST /api/admin/video", "200", "success">>,
                     <<"POST /api/admin/video/upload", "200", "success">>}
DeletedLocal ==
    /\ lastOps' # lastOps
    /\ lastOps' = <<"DELETE /api/admin/video/local", "200", "success">>

\* C38: after any sequence of the admin video operations GET
\* /api/video/current answers the configuration of the most recent save or
\* upload, and video: null when the most recent operation was the delete.
C38_CurrentIsMostRecent ==
    [][/\ SavedOrUploaded
          => CurrentVideo(videoConfigFile, serverVideoRows)' = NextBy
       /\ DeletedLocal
          => CurrentVideo(videoConfigFile, serverVideoRows)' = 0]_vars

\* what holds: a save or upload whose videoConfig.json was written is what
\* GET answers
C38_WrittenIsCurrent ==
    [][(SavedOrUploaded /\ videoConfigFile'.by = NextBy)
          => CurrentVideo(videoConfigFile, serverVideoRows)' = NextBy]_vars

\* what holds: the delete answers video: null when the table has no active
\* row, as it is after uploads only
C38_DeleteOfUploadIsNull ==
    [][(DeletedLocal /\ ActiveRows(serverVideoRows) = {})
          => CurrentVideo(videoConfigFile, serverVideoRows)' = 0]_vars

\* the delete was the most recent operation and GET answers the row that an
\* earlier POST /api/admin/video left active in the table
C38_DeletedButServed ==
    /\ lastOps = <<"GET /api/video/current", "200", "video: row">>
    /\ videoConfigFile.k = "absent"
    /\ videoConfigFile.by > 0
    /\ videoConfigFile.by = MaxBy(serverVideoRows)

\* the file could not be written: the save answered success and GET answers
\* the configuration of the upload before it
C38_StaleFileServed ==
    /\ lastOps = <<"GET /api/video/current", "200", "video: file">>
    /\ videoConfigFile.video_type = "local"
    /\ ActiveRows(serverVideoRows) # {}
    /\ videoConfigFile.by < MaxBy(serverVideoRows)

====
